---- MODULE Spec2Model ----
(***************************************************************************)
(* Model of redbot.core.config (Value, Group, MemberGroup, Config) and of  *)
(* its callers' read / write / scoped-edit sequences.                      *)
(*                                                                         *)
(* Python values are records [k |-> kind, v |-> payload]; a dict payload   *)
(* is a function from key strings to values, a list payload a sequence.    *)
(***************************************************************************)
EXTENDS Integers, Sequences, FiniteSets, TLC

VARIABLES
    force_registration, \* Config.force_registration
    defaults,           \* Config._defaults: scope tag -> defaults tree
    data,               \* the driver's stored document
    last,               \* the last API call: what it was given, raised, returned
    nreg,               \* number of registration calls made so far
    reglog,             \* history: the registration calls made so far, each
                        \* [scope, call, exc] (call 0: all the scopes at once)
    nset,               \* number of driver.set calls made so far
    written,            \* history: <<path, value>> of the driver.set calls
                        \* not yet superseded by a set at, above or below path
    pc,                 \* per caller task: position in its read-modify-write
    local,              \* per caller task: the object its local variable holds
    bank,               \* Economy.bank: user id -> balance of the account
    game_state,         \* Economy.game_state
    players,            \* Economy.players: player -> its bet and standing flag
    timer,              \* Economy.timer
    loops,              \* per 'bj start' command: where its game loop stands
    said,               \* the last cog command: its input and the bot's answer
    ncmd,               \* number of cog commands issued so far
    menu                \* the menu on display: number of pages, page shown

\* the state of the Config object, its driver and its callers
confVars == <<force_registration, defaults, data, last, nreg, reglog, nset,
              written, pc, local>>

\* the state of the Economy cog and of the menu
cogVars == <<bank, game_state, players, timer, loops, said, ncmd, menu>>

vars == <<confVars, cogVars>>

---------------------------------------------------------------------------
(* Bounds of the model *)

MaxSets == 1
NumTasks == 2
MaxRegs == 2
MaxStarts == 2
MaxCmds == 3

---------------------------------------------------------------------------
(* Python values *)

PyNone == [k |-> "none", v |-> FALSE]
PyBool(b) == [k |-> "bool", v |-> b]
PyInt(n) == [k |-> "int", v |-> n]
PyStr(s) == [k |-> "str", v |-> s]
PyList(s) == [k |-> "list", v |-> s]
PyDict(f) == [k |-> "dict", v |-> f]
EmptyDict == PyDict(<<>>)
EmptyList == PyList(<<>>)

\* isinstance(x, dict)
IsDict(x) == x.k = "dict"

\* k in d, for a dict d
HasKey(d, key) == key \in DOMAIN d.v

\* d[key] = x, as a new dict value
DictPut(d, key, x) ==
    PyDict([n \in (DOMAIN d.v) \cup {key} |-> IF n = key THEN x ELSE d.v[n]])

\* Python truthiness: bool(x)
Truthy(x) ==
    CASE x.k = "none" -> FALSE
      [] x.k = "bool" -> x.v
      [] x.k = "int" -> x.v # 0
      [] x.k = "str" -> x.v # ""
      [] x.k = "list" -> Len(x.v) > 0
      [] x.k = "dict" -> DOMAIN x.v # {}

\* str(i) of a non-negative int
DigitChars == <<"0", "1", "2", "3", "4", "5", "6", "7", "8", "9">>

RECURSIVE IntToStr(_)
IntToStr(n) ==
    IF n < 10 THEN DigitChars[n + 1]
    ELSE IntToStr(n \div 10) \o DigitChars[(n % 10) + 1]

\* str(x) for the values that occur as identifiers (str and int)
Str(x) == IF x.k = "int" THEN IntToStr(x.v) ELSE x.v

---------------------------------------------------------------------------
(* The driver: get(path) raises KeyError when nothing is stored at path,   *)
(* set(path, value) replaces the subtree at path.                          *)

RECURSIVE DriverGet(_, _)
DriverGet(doc, path) ==
    IF path = <<>> THEN [found |-> TRUE, val |-> doc]
    ELSE IF IsDict(doc) /\ HasKey(doc, Head(path))
         THEN DriverGet(doc.v[Head(path)], Tail(path))
         ELSE [found |-> FALSE, val |-> PyNone]

RECURSIVE DriverSet(_, _, _)
DriverSet(doc, path, value) ==
    IF path = <<>> THEN value
    ELSE LET base == IF IsDict(doc) THEN doc ELSE EmptyDict
             child == IF HasKey(base, Head(path)) THEN base.v[Head(path)]
                      ELSE EmptyDict
         IN DictPut(base, Head(path), DriverSet(child, Tail(path), value))

---------------------------------------------------------------------------
(* Config: class constants and construction *)

GLOBAL == "GLOBAL"
GUILD == "GUILD"
CHANNEL == "TEXTCHANNEL"
ROLE == "ROLE"
USER == "USER"
MEMBER == "MEMBER"

Scopes == {GLOBAL, GUILD, CHANNEL, ROLE, USER, MEMBER}

RECURSIVE JoinChars(_)
JoinChars(chars) ==
    IF chars = <<>> THEN "" ELSE Head(chars) \o JoinChars(Tail(chars))

\* the characters of Config.unique_identifier, and the identifier itself
UidChars == <<"1", "2">>
unique_identifier == JoinChars(UidChars)

---------------------------------------------------------------------------
(* Value and Group objects.  An object is a record                         *)
(*   cls          "Value", "Group", "MemberGroup", or "AttributeError"     *)
(*                when the attribute access that should produce it raised  *)
(*   identifiers  Value._identifiers                                       *)
(*   default      Value.default                                            *)
(*   defaults     Group._defaults                                          *)
(*   force        Group.force_registration                                 *)
(*   src          where in Config._defaults the object `default` lives     *)
(*                (<<>> when `default` is not an object of that tree)      *)

NewValue(ids, default_value, src) ==
    [cls |-> "Value", identifiers |-> ids, default |-> default_value,
     defaults |-> EmptyDict, force |-> FALSE, src |-> src]

NewGroup(cls, ids, dflts, force, src) ==
    [cls |-> cls, identifiers |-> ids, default |-> EmptyDict,
     defaults |-> dflts, force |-> force, src |-> src]

Raised(ids) ==
    [cls |-> "AttributeError", identifiers |-> ids, default |-> PyNone,
     defaults |-> EmptyDict, force |-> FALSE, src |-> <<>>]

\* Value.identifiers: every identifier stringified
Identifiers(obj) == [i \in 1..Len(obj.identifiers) |-> Str(obj.identifiers[i])]

\* Group.is_group that tests the default's truth value: an empty mapping is
\* no group
is_group_Truthy(g, item) ==
    HasKey(g.defaults, item) /\ IsDict(g.defaults.v[item])
        /\ Truthy(g.defaults.v[item])

\* Group.is_group / Group.is_value
is_group(g, item) == HasKey(g.defaults, item) /\ IsDict(g.defaults.v[item])
is_value(g, item) == HasKey(g.defaults, item) /\ ~IsDict(g.defaults.v[item])

\* Group.__getattr__ without the force_registration branch
GroupGetattr_NeverStrict(g, item) ==
    LET new_identifiers ==
            [i \in 1..(Len(g.identifiers) + 1) |->
                IF i <= Len(g.identifiers) THEN PyStr(Identifiers(g)[i])
                ELSE PyStr(item)]
    IN IF g.cls \notin {"Group", "MemberGroup"} THEN Raised(g.identifiers)
       ELSE IF is_group(g, item)
            THEN NewGroup("Group", new_identifiers, g.defaults.v[item],
                          g.force, Append(g.src, item))
       ELSE IF is_value(g, item)
            THEN NewValue(new_identifiers, g.defaults.v[item],
                          Append(g.src, item))
       ELSE NewValue(new_identifiers, PyNone, <<>>)

\* Group.__getattr__ raising for every unregistered item
GroupGetattr_AlwaysStrict(g, item) ==
    LET new_identifiers ==
            [i \in 1..(Len(g.identifiers) + 1) |->
                IF i <= Len(g.identifiers) THEN PyStr(Identifiers(g)[i])
                ELSE PyStr(item)]
    IN IF g.cls \notin {"Group", "MemberGroup"} THEN Raised(g.identifiers)
       ELSE IF is_group(g, item)
            THEN NewGroup("Group", new_identifiers, g.defaults.v[item],
                          g.force, Append(g.src, item))
       ELSE IF is_value(g, item)
            THEN NewValue(new_identifiers, g.defaults.v[item],
                          Append(g.src, item))
       ELSE Raised(new_identifiers)

\* Group.__getattr__; attribute access on a Value finds no such attribute
GroupGetattr(g, item) ==
    LET new_identifiers ==
            [i \in 1..(Len(g.identifiers) + 1) |->
                IF i <= Len(g.identifiers) THEN PyStr(Identifiers(g)[i])
                ELSE PyStr(item)]
    IN IF g.cls \notin {"Group", "MemberGroup"} THEN Raised(g.identifiers)
       ELSE IF is_group(g, item)
            THEN NewGroup("Group", new_identifiers, g.defaults.v[item],
                          g.force, Append(g.src, item))
       ELSE IF is_value(g, item)
            THEN NewValue(new_identifiers, g.defaults.v[item],
                          Append(g.src, item))
       ELSE IF g.force THEN Raised(new_identifiers)
       ELSE NewValue(new_identifiers, PyNone, <<>>)

\* Config._get_base_group(key, *identifiers, group_class)
BaseGroup(dflts, force, key, ids, group_class) ==
    NewGroup(group_class,
             <<PyStr(unique_identifier), PyStr(key)>> \o ids,
             IF HasKey(dflts, key) THEN dflts.v[key] ELSE EmptyDict,
             force, <<key>>)

\* Config.__getattr__ (GLOBAL), Config.guild / channel / role / user / member
\* applied to the ids of the discord objects
ScopeGroup(dflts, force, scope, ids) ==
    BaseGroup(dflts, force, scope, [i \in 1..Len(ids) |-> PyInt(ids[i])],
              IF scope = MEMBER THEN "MemberGroup" ELSE "Group")

\* conf.<scope>(obj).n1.n2...: a chain of attribute accesses
RECURSIVE Chain(_, _)
Chain(obj, names) ==
    IF names = <<>> THEN obj
    ELSE Chain(GroupGetattr(obj, Head(names)), Tail(names))

Resolve(dflts, force, tgt) ==
    Chain(ScopeGroup(dflts, force, tgt.scope, tgt.ids), tgt.names)

---------------------------------------------------------------------------
(* Value._get, Value.set, Group.set as functions of the stored document.   *)
(* Each returns the exception raised ("none" when it returns normally),    *)
(* the value returned, the new document and the driver calls it made.      *)

DrvCall(kind, path) == [kind |-> kind, path |-> path]

\* Value._get with `return ret or self.default`: a stored falsy value is
\* taken for an absent one
ValueGet_FalsyStored(obj, doc, default) ==
    LET r == DriverGet(doc, Identifiers(obj))
    IN [exc |-> "none",
        ret |-> IF r.found /\ Truthy(r.val) THEN r.val
                ELSE IF default # PyNone THEN default ELSE obj.default,
        src |-> <<>>, doc |-> doc,
        calls |-> <<DrvCall("get", Identifiers(obj))>>]

\* Value._get with `default if default else self.default`: a falsy override
\* is taken for no override
ValueGet_TruthyOverride(obj, doc, default) ==
    LET r == DriverGet(doc, Identifiers(obj))
    IN [exc |-> "none",
        ret |-> IF r.found THEN r.val
                ELSE IF Truthy(default) THEN default ELSE obj.default,
        src |-> <<>>, doc |-> doc,
        calls |-> <<DrvCall("get", Identifiers(obj))>>]

\* Value._get that stores the default it falls back to
ValueGet_StoresDefault(obj, doc, default) ==
    LET r == DriverGet(doc, Identifiers(obj))
        ret == IF r.found THEN r.val
               ELSE IF default # PyNone THEN default ELSE obj.default
    IN [exc |-> "none", ret |-> ret, src |-> <<>>,
        doc |-> IF r.found THEN doc
                ELSE DriverSet(doc, Identifiers(obj), ret),
        calls |-> IF r.found THEN <<DrvCall("get", Identifiers(obj))>>
                  ELSE <<DrvCall("get", Identifiers(obj)),
                         DrvCall("set", Identifiers(obj))>>]

\* Value._get(default)
ValueGet(obj, doc, default) ==
    LET r == DriverGet(doc, Identifiers(obj))
    IN [exc |-> "none",
        ret |-> IF r.found THEN r.val
                ELSE IF default # PyNone THEN default ELSE obj.default,
        \* the object returned is the one held by the defaults tree
        src |-> IF ~r.found /\ default = PyNone /\ obj.cls = "Value"
                THEN obj.src ELSE <<>>,
        doc |-> doc,
        calls |-> <<DrvCall("get", Identifiers(obj))>>]

\* Value.set that merges into a stored list instead of replacing it
ValueSet_MergeLists(obj, doc, value) ==
    LET cur == DriverGet(doc, Identifiers(obj))
        new == IF cur.found /\ cur.val.k = "list" /\ value.k = "list"
               THEN PyList(cur.val.v \o
                           SelectSeq(value.v,
                                     LAMBDA x : \A i \in 1..Len(cur.val.v) :
                                                    cur.val.v[i] # x))
               ELSE value
    IN [exc |-> "none", ret |-> PyNone, src |-> <<>>,
        doc |-> DriverSet(doc, Identifiers(obj), new),
        calls |-> <<DrvCall("set", Identifiers(obj))>>]

\* Value.set that stores {key: value} as the whole parent mapping
ValueSet_WholeParent(obj, doc, value) ==
    LET ids == Identifiers(obj)
    IN [exc |-> "none", ret |-> PyNone, src |-> <<>>,
        doc |-> DriverSet(doc, SubSeq(ids, 1, Len(ids) - 1),
                          DictPut(EmptyDict, ids[Len(ids)], value)),
        calls |-> <<DrvCall("set", SubSeq(ids, 1, Len(ids) - 1))>>]

\* Value.set(value)
ValueSet(obj, doc, value) ==
    [exc |-> "none", ret |-> PyNone, src |-> <<>>,
     doc |-> DriverSet(doc, Identifiers(obj), value),
     calls |-> <<DrvCall("set", Identifiers(obj))>>]

\* Group.set without the isinstance test
GroupSet_Unchecked(obj, doc, value) == ValueSet(obj, doc, value)

\* Group.set that updates the stored mapping instead of replacing it
GroupSet_Update(obj, doc, value) ==
    LET cur == DriverGet(doc, Identifiers(obj))
        old == IF cur.found /\ IsDict(cur.val) THEN cur.val ELSE EmptyDict
    IN IF ~IsDict(value)
       THEN [exc |-> "ValueError", ret |-> PyNone, src |-> <<>>, doc |-> doc,
             calls |-> <<>>]
       ELSE ValueSet(obj, doc,
                     PyDict([n \in (DOMAIN old.v) \cup (DOMAIN value.v) |->
                               IF n \in DOMAIN value.v THEN value.v[n]
                               ELSE old.v[n]]))

\* Group.set(value)
GroupSet(obj, doc, value) ==
    IF ~IsDict(value)
    THEN [exc |-> "ValueError", ret |-> PyNone, src |-> <<>>, doc |-> doc,
          calls |-> <<>>]
    ELSE ValueSet(obj, doc, value)

\* a call that raised before reaching the driver
Raise(exc, doc) ==
    [exc |-> exc, ret |-> PyNone, src |-> <<>>, doc |-> doc, calls |-> <<>>]

---------------------------------------------------------------------------
(* Registration.  A keyword name is a sequence of characters; a call's     *)
(* keyword arguments are a sequence of <<name, value>> in call order.      *)

Letters == {"a", "b", "c", "d", "e", "f", "g", "h", "i", "j", "k", "l", "m",
            "n", "o", "p", "q", "r", "s", "t", "u", "v", "w", "x", "y", "z"}
Digits == {DigitChars[i] : i \in 1..10}

\* str.isidentifier() of a segment
IsIdentifier(seg) ==
    /\ Len(seg) > 0
    /\ seg[1] \in Letters \cup {"_"}
    /\ \A i \in 1..Len(seg) : seg[i] \in Letters \cup Digits \cup {"_"}

\* key.split('__'): leftmost, non-overlapping separators
RECURSIVE SplitFrom(_, _)
SplitFrom(chars, cur) ==
    IF chars = <<>> THEN <<cur>>
    ELSE IF Len(chars) >= 2 /\ chars[1] = "_" /\ chars[2] = "_"
         THEN <<cur>> \o SplitFrom(SubSeq(chars, 3, Len(chars)), <<>>)
         ELSE SplitFrom(Tail(chars), Append(cur, Head(chars)))

Split(chars) == SplitFrom(chars, <<>>)

RECURSIVE NestDict(_, _)
NestDict(segs, value) ==
    IF Len(segs) = 1 THEN DictPut(EmptyDict, JoinChars(segs[1]), value)
    ELSE DictPut(EmptyDict, JoinChars(segs[1]), NestDict(Tail(segs), value))

\* Config._get_defaults_dict with key.split('__', 1): only the first
\* separator nests
GetDefaultsDict_SplitOnce(key, value) ==
    LET parts == Split(key)
        splitted == IF Len(parts) <= 2 THEN parts
                    ELSE <<parts[1], SubSeq(key, Len(parts[1]) + 3, Len(key))>>
    IN IF \E i \in 1..Len(splitted) : ~IsIdentifier(splitted[i])
       THEN [exc |-> "RuntimeError", val |-> EmptyDict]
       ELSE [exc |-> "none", val |-> NestDict(splitted, value)]

\* Config._get_defaults_dict without the k.isidentifier() test
GetDefaultsDict_Unchecked(key, value) ==
    [exc |-> "none", val |-> NestDict(Split(key), value)]

\* Config._get_defaults_dict(key, value)
GetDefaultsDict(key, value) ==
    LET splitted == Split(key)
    IN IF \E i \in 1..Len(splitted) : ~IsIdentifier(splitted[i])
       THEN [exc |-> "RuntimeError", val |-> EmptyDict]
       ELSE [exc |-> "none", val |-> NestDict(splitted, value)]

DictRemove(d, key) == PyDict([n \in (DOMAIN d.v) \ {key} |-> d.v[n]])

\* Config._update_defaults with `_partial[k].update(v)` where it recurses:
\* nested keys are overwritten unchecked
RECURSIVE UpdateDefaults_ShallowMerge(_, _)
UpdateDefaults_ShallowMerge(to_add, partial) ==
    IF DOMAIN to_add.v = {} THEN {[exc |-> "none", val |-> partial]}
    ELSE UNION {
        LET v == to_add.v[key]
            rest == DictRemove(to_add, key)
            old == partial.v[key]
        IN IF HasKey(partial, key)
           THEN IF IsDict(v) # IsDict(old)
                THEN {[exc |-> "KeyError", val |-> partial]}
                ELSE IF IsDict(v)
                THEN UpdateDefaults_ShallowMerge(rest,
                        DictPut(partial, key,
                            PyDict([n \in (DOMAIN old.v) \cup (DOMAIN v.v) |->
                                      IF n \in DOMAIN v.v THEN v.v[n]
                                      ELSE old.v[n]])))
                ELSE UpdateDefaults_ShallowMerge(rest, DictPut(partial, key, v))
           ELSE UpdateDefaults_ShallowMerge(rest, DictPut(partial, key, v))
        : key \in DOMAIN to_add.v }

\* Config._update_defaults with `_partial.setdefault(k, v)` for a leaf that
\* is registered already: the first default is kept
RECURSIVE UpdateDefaults_KeepFirst(_, _)
UpdateDefaults_KeepFirst(to_add, partial) ==
    IF DOMAIN to_add.v = {} THEN {[exc |-> "none", val |-> partial]}
    ELSE UNION {
        LET v == to_add.v[key]
            rest == DictRemove(to_add, key)
        IN IF HasKey(partial, key)
           THEN IF IsDict(v) # IsDict(partial.v[key])
                THEN {[exc |-> "KeyError", val |-> partial]}
                ELSE IF IsDict(v)
                THEN UNION {
                       IF r.exc # "none"
                       THEN {[exc |-> r.exc,
                              val |-> DictPut(partial, key, r.val)]}
                       ELSE UpdateDefaults_KeepFirst(rest,
                                DictPut(partial, key, r.val))
                       : r \in UpdateDefaults_KeepFirst(v, partial.v[key]) }
                ELSE UpdateDefaults_KeepFirst(rest, partial)
           ELSE UpdateDefaults_KeepFirst(rest, DictPut(partial, key, v))
        : key \in DOMAIN to_add.v }

\* Config._update_defaults with `_partial[k] = v` where it recurses: a group
\* registered again replaces the group registered before
RECURSIVE UpdateDefaults_Replace(_, _)
UpdateDefaults_Replace(to_add, partial) ==
    IF DOMAIN to_add.v = {} THEN {[exc |-> "none", val |-> partial]}
    ELSE UNION {
        LET v == to_add.v[key]
            rest == DictRemove(to_add, key)
        IN IF HasKey(partial, key) /\ IsDict(v) # IsDict(partial.v[key])
           THEN {[exc |-> "KeyError", val |-> partial]}
           ELSE UpdateDefaults_Replace(rest, DictPut(partial, key, v))
        : key \in DOMAIN to_add.v }

\* Config._update_defaults(to_add, _partial): the outcomes over the orders
\* in which to_add's items can be iterated; val is _partial as the call
\* leaves it, also when it raised
RECURSIVE UpdateDefaults(_, _)
UpdateDefaults(to_add, partial) ==
    IF DOMAIN to_add.v = {} THEN {[exc |-> "none", val |-> partial]}
    ELSE UNION {
        LET v == to_add.v[key]
            rest == DictRemove(to_add, key)
        IN IF HasKey(partial, key)
           THEN IF IsDict(v) # IsDict(partial.v[key])
                THEN {[exc |-> "KeyError", val |-> partial]}
                ELSE IF IsDict(v)
                THEN UNION {
                       IF r.exc # "none"
                       THEN {[exc |-> r.exc,
                              val |-> DictPut(partial, key, r.val)]}
                       ELSE UpdateDefaults(rest, DictPut(partial, key, r.val))
                       : r \in UpdateDefaults(v, partial.v[key]) }
                ELSE UpdateDefaults(rest, DictPut(partial, key, v))
           ELSE UpdateDefaults(rest, DictPut(partial, key, v))
        : key \in DOMAIN to_add.v }

\* Config._register_default(key, **kwargs): val is Config._defaults as the
\* call leaves it
RECURSIVE RegisterItems(_, _, _)
RegisterItems(dflts, scope, kwargs) ==
    IF kwargs = <<>> THEN {[exc |-> "none", val |-> dflts]}
    ELSE LET to_add == GetDefaultsDict(Head(kwargs)[1], Head(kwargs)[2])
         IN IF to_add.exc # "none"
            THEN {[exc |-> to_add.exc, val |-> dflts]}
            ELSE UNION {
                   IF r.exc # "none"
                   THEN {[exc |-> r.exc, val |-> DictPut(dflts, scope, r.val)]}
                   ELSE RegisterItems(DictPut(dflts, scope, r.val), scope,
                                      Tail(kwargs))
                   : r \in UpdateDefaults(to_add.val, dflts.v[scope]) }

\* Config._register_default that keeps one defaults tree for all scopes
RegisterDefault_OneTree(dflts, scope, kwargs) ==
    RegisterItems(IF HasKey(dflts, GLOBAL) THEN dflts
                  ELSE DictPut(dflts, GLOBAL, EmptyDict),
                  GLOBAL, kwargs)

\* Config._register_default(key, **kwargs)
RegisterDefault(dflts, scope, kwargs) ==
    RegisterItems(IF HasKey(dflts, scope) THEN dflts
                  ELSE DictPut(dflts, scope, EmptyDict),
                  scope, kwargs)

\* Value.clear: class Value defines no such attribute and no __getattr__
ValueClear(obj, doc) == Raise("AttributeError", doc)

\* Group.clear that makes no driver call
GroupClear_KeepsData(obj, doc) == Raise("none", doc)

\* Group.clear that empties the group one level up (Group._super_group)
GroupClear_ClearsParent(obj, doc) ==
    GroupSet([obj EXCEPT !.identifiers =
                            SubSeq(obj.identifiers, 1,
                                   Len(obj.identifiers) - 1)],
             doc, EmptyDict)

\* Group.clear()
GroupClear(obj, doc) == GroupSet(obj, doc, EmptyDict)

\* list.append(item) on a value (no effect modelled on a non-list)
ListAppend(x, item) == IF x.k = "list" THEN PyList(Append(x.v, item)) ELSE x

\* an `async with` that works as a silent context manager would: the value
\* is read, the block runs on it and the result is written back
AsyncWith_Enters(obj, doc, item) ==
    LET cur == DriverGet(doc, Identifiers(obj))
        val == ListAppend(IF cur.found THEN cur.val ELSE obj.default, item)
    IN {[exc |-> "none", ret |-> PyNone, src |-> <<>>,
         doc |-> DriverSet(doc, Identifiers(obj), val),
         calls |-> <<DrvCall("get", Identifiers(obj)),
                     DrvCall("set", Identifiers(obj))>>]}

\* `async with obj() as x: x.append(item)`: Value.__call__ returns the coroutine of _get
\* without running it, and a coroutine is no asynchronous context manager:
\* the statement raises (AttributeError before Python 3.11, TypeError from
\* 3.11 on) and its block is never entered
AsyncWith(obj, doc, item) ==
    {Raise("AttributeError", doc), Raise("TypeError", doc)}

---------------------------------------------------------------------------
(* Inputs of the store API *)

Target(scope, ids, names) == [scope |-> scope, ids |-> ids, names |-> names]

\* one entity per scope
Roots ==
    {Target(GLOBAL, <<>>, <<>>), Target(GUILD, <<42>>, <<>>),
     Target(CHANNEL, <<42>>, <<>>), Target(ROLE, <<42>>, <<>>),
     Target(USER, <<42>>, <<>>), Target(MEMBER, <<42, 7>>, <<>>)}

\* register_<scope>(on=False, roles=[])
StoreKwargs ==
    << <<(<<"o", "n">>), PyBool(FALSE)>>,
       <<(<<"r", "o", "l", "e", "s">>), EmptyList>> >>

LeafNames == {<<"on">>, <<"roles">>}

Leaves == {Target(r.scope, r.ids, n) : r \in Roots, n \in LeafNames}

WriteVals == {PyBool(TRUE), PyNone}
Overrides == {PyNone, PyInt(0), EmptyList}

\* the caller tasks, and what a task's local variable holds before its read
Tasks == 1..NumTasks

NoLocal == [tgt |-> Target(GLOBAL, <<>>, <<>>), src |-> <<>>, val |-> PyNone]

NoCall ==
    [op |-> "init", tgt |-> Target(GLOBAL, <<>>, <<>>), arg |-> PyNone,
     exc |-> "none", ret |-> PyNone, calls |-> <<>>]

Called(op, tgt, arg, r) ==
    [op |-> op, tgt |-> tgt, arg |-> arg, exc |-> r.exc, ret |-> r.ret,
     calls |-> r.calls]

IsPrefix(p, q) == Len(p) <= Len(q) /\ SubSeq(q, 1, Len(p)) = p
Related(p, q) == IsPrefix(p, q) \/ IsPrefix(q, p)

NumSets(calls) == Cardinality({j \in 1..Len(calls) : calls[j].kind = "set"})

\* the history after a call that made `calls`, the values set being `value`
RECURSIVE Log(_, _, _)
Log(w, calls, value) ==
    IF calls = <<>> THEN w
    ELSE IF Head(calls).kind # "set" THEN Log(w, Tail(calls), value)
    ELSE Log({e \in w : ~Related(e[1], Head(calls).path)}
                \cup {<<Head(calls).path, value>>},
             Tail(calls), value)

---------------------------------------------------------------------------
(* The store API, one call at a time *)

\* bank.json as check_files creates it: {}
NoAccounts == [u \in {} |-> 0]

\* Economy.__init__: self.players = {}
NoPlayers == [u \in {} |-> [bet |-> 0, standing |-> FALSE]]

\* the 'bj start' commands, each of which may run Economy.blackjack
Loops == 1..MaxStarts

\* no command has been given to the cog yet
NoCommand == [cmd |-> "none", author |-> 0, user |-> 0, sum |-> 0, msg |-> ""]

\* no menu is on display
NoMenu == [len |-> 0, page |-> 0, start |-> 0]

Init ==
    /\ force_registration \in BOOLEAN
    /\ defaults = EmptyDict
    /\ data = EmptyDict
    /\ last = NoCall
    /\ nreg = 0
    /\ reglog = <<>>
    /\ nset = 0
    /\ written = {}
    /\ pc = [t \in Tasks |-> "idle"]
    /\ local = [t \in Tasks |-> NoLocal]
    /\ bank = NoAccounts
    /\ game_state = "null"
    /\ players = NoPlayers
    /\ timer = 0
    /\ loops = [l \in Loops |-> "off"]
    /\ said = NoCommand
    /\ ncmd = 0
    /\ menu = NoMenu

\* the registrations of a cog's __init__: register_global(**kwargs),
\* register_guild(**kwargs), ... for every scope; synchronous code, so no
\* other call runs between them
RECURSIVE RegisterScopes(_, _, _)
RegisterScopes(dflts, scopes, kwargs) ==
    IF scopes = {} THEN {[exc |-> "none", val |-> dflts]}
    ELSE LET scope == CHOOSE x \in scopes : TRUE
         IN UNION {
              IF r.exc # "none" THEN {r}
              ELSE RegisterScopes(r.val, scopes \ {scope}, kwargs)
              : r \in RegisterDefault(dflts, scope, kwargs) }

RegisterAll(kwargs) ==
    /\ nreg = 0
    /\ \E r \in RegisterScopes(defaults, Scopes, kwargs) :
        /\ defaults' = r.val
        /\ last' = Called("register", Target(GLOBAL, <<>>, <<>>), PyNone,
                          Raise(r.exc, data))
        /\ reglog' = Append(reglog, [scope |-> "", call |-> 0, exc |-> r.exc])
    /\ nreg' = nreg + 1
    /\ UNCHANGED cogVars
    /\ UNCHANGED <<force_registration, data, nset, written, pc, local>>

\* await conf.<scope>(obj).<names>(override)
\* as a function of the defaults tree and the stored document
ReadIn(dflts, doc, tgt, override) ==
    LET obj == Resolve(dflts, force_registration, tgt)
    IN IF obj.cls = "AttributeError" THEN Raise("AttributeError", doc)
       ELSE ValueGet(obj, doc, override)

ReadCall(tgt, override) == ReadIn(defaults, data, tgt, override)

Read(tgt, override) ==
    /\ last' = Called("read", tgt, override, ReadCall(tgt, override))
    /\ UNCHANGED reglog
    /\ UNCHANGED cogVars
    /\ UNCHANGED <<force_registration, defaults, data, nreg, nset, written,
                   pc, local>>

\* a call that may write: its driver.set calls count against MaxSets
Commit(op, tgt, arg, value, r) ==
    /\ nset + NumSets(r.calls) <= MaxSets
    /\ data' = r.doc
    /\ nset' = nset + NumSets(r.calls)
    /\ written' = Log(written, r.calls, value)
    /\ last' = Called(op, tgt, arg, r)
    /\ UNCHANGED reglog
    /\ UNCHANGED cogVars
    /\ UNCHANGED <<force_registration, defaults, nreg, pc, local>>

\* await conf.<scope>(obj).<names>.set(value)
WriteCall(tgt, value) ==
    LET obj == Resolve(defaults, force_registration, tgt)
    IN IF obj.cls = "AttributeError" THEN Raise("AttributeError", data)
       ELSE IF obj.cls = "Value" THEN ValueSet(obj, data, value)
       ELSE GroupSet(obj, data, value)

Write(tgt, value) == Commit("write", tgt, value, value, WriteCall(tgt, value))

\* await conf.<scope>(obj).<names>.clear()
ClearCall(tgt) ==
    LET obj == Resolve(defaults, force_registration, tgt)
    IN IF obj.cls = "AttributeError" THEN Raise("AttributeError", data)
       ELSE IF obj.cls = "Value" THEN ValueClear(obj, data)
       ELSE GroupClear(obj, data)

Clear(tgt) == Commit("clear", tgt, PyNone, EmptyDict, ClearCall(tgt))

Next ==
    \/ RegisterAll(StoreKwargs)
    \/ \E tgt \in Leaves, override \in Overrides : Read(tgt, override)
    \/ \E tgt \in Leaves, value \in WriteVals : Write(tgt, value)
    \/ \E tgt \in Leaves : Clear(tgt)

Spec == Init /\ [][Next]_vars

---------------------------------------------------------------------------
(* Scoped edits: the callers of test_value_ctxmgr*                         *)

EditRoots ==
    {Target(GLOBAL, <<>>, <<>>), Target(GUILD, <<42>>, <<>>),
     Target(GUILD, <<43>>, <<>>)}

EditLeaves == {Target(r.scope, r.ids, n) : r \in EditRoots, n \in LeafNames}

EditVals == {PyBool(TRUE), PyList(<<PyStr("mod")>>)}

EditItem == PyStr("admin")

\* async with conf.<scope>(obj).<names>() as x:
\*     x.append(item)
\*     [raise RuntimeError()]
ScopedEdit(tgt, item, raises) ==
    LET obj == Resolve(defaults, force_registration, tgt)
    IN \E r \in (IF obj.cls = "AttributeError"
                 THEN {Raise("AttributeError", data)}
                 ELSE AsyncWith(obj, data, item)) :
         Commit(IF raises THEN "edit_raise" ELSE "edit", tgt, item,
                DriverGet(r.doc, Identifiers(obj)).val, r)

NextEdit ==
    \/ RegisterAll(StoreKwargs)
    \/ \E tgt \in EditLeaves : Read(tgt, PyNone)
    \/ \E tgt \in EditLeaves, value \in EditVals : Write(tgt, value)
    \/ \E tgt \in EditLeaves, raises \in BOOLEAN :
            ScopedEdit(tgt, EditItem, raises)

SpecEdit == Init /\ [][NextEdit]_vars

---------------------------------------------------------------------------
(* Concurrent callers.  Each task runs, as in test_set_guild,              *)
(*     x = await conf.<scope>(obj).<names>(override)                       *)
(*     x.append(item)                                                      *)
(*     await conf.<scope>(obj).<names>.set(x)                              *)
(* and may be suspended at each await while another task runs.             *)

\* the object at path src of a defaults tree
RECURSIVE DictAt(_, _)
DictAt(tree, src) ==
    IF src = <<>> THEN tree ELSE DictAt(tree.v[Head(src)], Tail(src))

\* the tree after the object at path src was changed in place to x
RECURSIVE SetAt(_, _, _)
SetAt(tree, src, x) ==
    IF src = <<>> THEN x
    ELSE DictPut(tree, Head(src), SetAt(tree.v[Head(src)], Tail(src), x))

\* the object task t holds: the defaults tree's own object when _get
\* returned self.default, else an object of the task's own
LocalVal(t) ==
    IF local[t].src # <<>> THEN DictAt(defaults, local[t].src)
    ELSE local[t].val

TaskLeaves ==
    {Target(GUILD, <<42>>, <<"roles">>), Target(GUILD, <<43>>, <<"roles">>)}

TaskOverrides == {PyNone, EmptyList}

ItemNames == <<"a", "b", "c", "d">>
Item(t) == PyStr(ItemNames[t])

TRead(t, tgt, override) ==
    /\ pc[t] = "idle"
    /\ LET r == ReadCall(tgt, override)
       IN /\ pc' = [pc EXCEPT ![t] = IF r.exc = "none" THEN "held"
                                      ELSE "failed"]
          /\ local' = [local EXCEPT ![t] =
                          [tgt |-> tgt, src |-> r.src, val |-> r.ret]]
          /\ last' = Called("tread", tgt, PyInt(t), r)
    /\ UNCHANGED reglog
    /\ UNCHANGED cogVars
    /\ UNCHANGED <<force_registration, defaults, data, nreg, nset, written>>

TMutate(t) ==
    /\ pc[t] = "held"
    /\ LocalVal(t).k = "list"
    /\ LET new == ListAppend(LocalVal(t), Item(t))
       IN /\ local' = [local EXCEPT ![t].val = new]
          /\ defaults' = IF local[t].src # <<>>
                         THEN SetAt(defaults, local[t].src, new)
                         ELSE defaults
    /\ pc' = [pc EXCEPT ![t] = "mutated"]
    /\ last' = Called("tmutate", local[t].tgt, PyInt(t), Raise("none", data))
    /\ UNCHANGED reglog
    /\ UNCHANGED cogVars
    /\ UNCHANGED <<force_registration, data, nreg, nset, written>>

TWrite(t) ==
    /\ pc[t] \in {"held", "mutated"}
    /\ LET r == WriteCall(local[t].tgt, LocalVal(t))
       IN /\ data' = r.doc
          /\ nset' = nset + NumSets(r.calls)
          /\ written' = Log(written, r.calls, LocalVal(t))
          /\ last' = Called("twrite", local[t].tgt, PyInt(t), r)
    /\ pc' = [pc EXCEPT ![t] = "done"]
    /\ UNCHANGED reglog
    /\ UNCHANGED cogVars
    /\ UNCHANGED <<force_registration, defaults, nreg, local>>

NextTasks ==
    \/ RegisterAll(StoreKwargs)
    \/ \E t \in Tasks, tgt \in TaskLeaves, override \in TaskOverrides :
            TRead(t, tgt, override)
    \/ \E t \in Tasks : TMutate(t)
    \/ \E t \in Tasks : TWrite(t)

SpecTasks == Init /\ [][NextTasks]_vars

---------------------------------------------------------------------------
(* Registration calls *)

RegScopes == {GLOBAL, GUILD}

KeyA == <<"a">>
KeyAB == <<"a", "_", "_", "b">>
KeyABC == <<"a", "_", "_", "b", "_", "_", "c">>
KeyAC == <<"a", "_", "_", "c">>
KeyB == <<"b">>
KeyBad == <<"a", " ", "b">>
KeyDigit == <<"1", "a">>
KeyEmpty == <<"a", "_", "_">>

\* the keyword arguments of the registration calls made
RegPool ==
    << << <<KeyA, PyBool(TRUE)>> >>,                        \* a=True
       << <<KeyA, EmptyDict>> >>,                           \* a={}
       << <<KeyA, DictPut(EmptyDict, "b", PyBool(FALSE))>> >>,
                                                            \* a={"b": False}
       << <<KeyAB, PyBool(FALSE)>> >>,                      \* a__b=False
       << <<KeyABC, PyInt(0)>> >>,                          \* a__b__c=0
       << <<KeyA, DictPut(EmptyDict, "b",
                          DictPut(EmptyDict, "c", PyInt(0)))>> >>,
                                                            \* a={"b": {"c": 0}}
       << <<KeyA, PyBool(FALSE)>> >>,                       \* a=False
       << <<KeyAC, PyBool(TRUE)>> >>,                       \* a__c=True
       << <<KeyB, PyInt(1)>>, <<KeyAC, PyBool(FALSE)>> >>,  \* b=1, a__c=False
       << <<KeyA, DictPut(DictPut(EmptyDict, "d", PyInt(1)), "b",
                          DictPut(EmptyDict, "c", PyInt(0)))>> >>,
                                                    \* a={"d": 1, "b": {"c": 0}}
       << <<KeyBad, PyBool(TRUE)>> >>,                      \* **{"a b": True}
       << <<KeyDigit, PyBool(TRUE)>> >>,                    \* **{"1a": True}
       << <<KeyB, PyInt(1)>>, <<KeyEmpty, PyBool(TRUE)>> >> \* b=1, a__=True
    >>

\* conf.register_<scope>(**RegPool[i])
Register(scope, i) ==
    /\ nreg < MaxRegs
    /\ \E r \in RegisterDefault(defaults, scope, RegPool[i]) :
        /\ defaults' = r.val
        /\ last' = Called("register", Target(scope, <<>>, <<>>), PyInt(i),
                          Raise(r.exc, data))
        /\ reglog' = Append(reglog, [scope |-> scope, call |-> i, exc |-> r.exc])
    /\ nreg' = nreg + 1
    /\ UNCHANGED cogVars
    /\ UNCHANGED <<force_registration, data, nset, written, pc, local>>

NextReg == \E scope \in RegScopes, i \in 1..Len(RegPool) : Register(scope, i)

SpecReg == Init /\ [][NextReg]_vars

---------------------------------------------------------------------------
(* Access to registered and unregistered keys, by attribute access and by   *)
(* Group.get_attr / Group.set_attr                                         *)

KeyOn == <<"o", "n">>
KeyAOn == <<"a", "_", "_", "o", "n">>

\* register_<scope>(on=True, a__on=False, a__b__c=0)
NestKwargs ==
    << <<KeyOn, PyBool(TRUE)>>, <<KeyAOn, PyBool(FALSE)>>,
       <<KeyABC, PyInt(0)>> >>

AccessRoots == {Target(GLOBAL, <<>>, <<>>), Target(GUILD, <<42>>, <<>>)}

\* keys NestKwargs registers, and keys it does not, at depth 1, 2 and 3
AccessNames ==
    {<<"on">>, <<"a", "on">>, <<"a", "b", "c">>,
     <<"x">>, <<"a", "x">>, <<"a", "b", "x">>}

AccessTargets ==
    {Target(r.scope, r.ids, n) : r \in AccessRoots, n \in AccessNames}

AccessOverrides == {PyNone, PyInt(0)}

\* the Group on which the last name of tgt is looked up
ParentOf(tgt) ==
    Resolve(defaults, force_registration,
            Target(tgt.scope, tgt.ids, SubSeq(tgt.names, 1, Len(tgt.names) - 1)))

LastName(tgt) == tgt.names[Len(tgt.names)]

\* get_attr that resolves with value() instead of value(default=default)
GetAttrCall_DropsDefault(tgt, default) ==
    LET g == ParentOf(tgt)
        value == GroupGetattr(g, LastName(tgt))
    IN IF g.cls \notin {"Group", "MemberGroup"}
       THEN Raise("AttributeError", data)
       ELSE IF value.cls = "AttributeError" THEN Raise("AttributeError", data)
       ELSE ValueGet(value, data, PyNone)

\* await <parent>.get_attr(item, default); a Value has no get_attr
GetAttrCall(tgt, default) ==
    LET g == ParentOf(tgt)
        value == GroupGetattr(g, LastName(tgt))
    IN IF g.cls \notin {"Group", "MemberGroup"}
       THEN Raise("AttributeError", data)
       ELSE IF value.cls = "AttributeError" THEN Raise("AttributeError", data)
       ELSE ValueGet(value, data, default)

\* await <parent>.set_attr(item, value)
SetAttrCall(tgt, value) ==
    LET g == ParentOf(tgt)
        value_obj == GroupGetattr(g, LastName(tgt))
    IN IF g.cls \notin {"Group", "MemberGroup"}
       THEN Raise("AttributeError", data)
       ELSE IF value_obj.cls = "AttributeError"
       THEN Raise("AttributeError", data)
       ELSE IF value_obj.cls = "Value" THEN ValueSet(value_obj, data, value)
       ELSE GroupSet(value_obj, data, value)

GetAttr(tgt, default) ==
    /\ last' = Called("get_attr", tgt, default, GetAttrCall(tgt, default))
    /\ UNCHANGED cogVars
    /\ UNCHANGED <<force_registration, defaults, data, nreg, reglog, nset,
                   written, pc, local>>

SetAttr(tgt, value) ==
    Commit("set_attr", tgt, value, value, SetAttrCall(tgt, value))

NextAccess ==
    \/ RegisterAll(NestKwargs)
    \/ \E tgt \in AccessTargets, override \in AccessOverrides :
            Read(tgt, override)
    \/ \E tgt \in AccessTargets, override \in AccessOverrides :
            GetAttr(tgt, override)
    \/ \E tgt \in AccessTargets, value \in WriteVals : Write(tgt, value)
    \/ \E tgt \in AccessTargets, value \in WriteVals : SetAttr(tgt, value)

SpecAccess == Init /\ [][NextAccess]_vars

---------------------------------------------------------------------------
(* Group.set and Group.clear on the global group and its nested groups,    *)
(* after writes to their leaves                                            *)

MaxGroupSets == 2

\* conf.set / conf.clear reach the global group through Config.__getattr__
GroupRoots == {Target(GLOBAL, <<>>, <<>>)}

\* the scope's group and the groups NestKwargs registers below it
GroupTargets ==
    {Target(r.scope, r.ids, n) :
        r \in GroupRoots, n \in {<<>>, <<"a">>, <<"a", "b">>}}

\* the leaves NestKwargs registers
GroupLeaves ==
    {Target(r.scope, r.ids, n) :
        r \in GroupRoots, n \in {<<"on">>, <<"a", "on">>, <<"a", "b", "c">>}}

LeafVal == PyInt(5)

\* the values passed to Group.set: {}, {"on": 7}, {"b": {"c": 7}}, True
GroupVals ==
    {EmptyDict,
     DictPut(EmptyDict, "on", PyInt(7)),
     DictPut(EmptyDict, "b", DictPut(EmptyDict, "c", PyInt(7))),
     PyBool(TRUE)}

\* a call that may write, counted against MaxGroupSets
GroupCommit(op, tgt, arg, value, r) ==
    /\ nset + NumSets(r.calls) <= MaxGroupSets
    /\ data' = r.doc
    /\ nset' = nset + NumSets(r.calls)
    /\ written' = Log(written, r.calls, value)
    /\ last' = Called(op, tgt, arg, r)
    /\ UNCHANGED cogVars
    /\ UNCHANGED <<force_registration, defaults, nreg, reglog, pc, local>>

NextGroup ==
    \/ RegisterAll(NestKwargs)
    \/ \E tgt \in GroupLeaves \cup GroupTargets : Read(tgt, PyNone)
    \/ \E tgt \in GroupLeaves :
            GroupCommit("write", tgt, LeafVal, LeafVal, WriteCall(tgt, LeafVal))
    \/ \E tgt \in GroupTargets, value \in GroupVals :
            GroupCommit("write", tgt, value, value, WriteCall(tgt, value))
    \/ \E tgt \in GroupTargets :
            GroupCommit("clear", tgt, PyNone, EmptyDict, ClearCall(tgt))

SpecGroup == Init /\ [][NextGroup]_vars

---------------------------------------------------------------------------
(* Group.all on a scope entity and on a registered group below it          *)

\* dict.update(other) on d
DictUpdate(d, other) ==
    PyDict([n \in (DOMAIN d.v) \cup (DOMAIN other.v) |->
                IF n \in DOMAIN other.v THEN other.v[n] ELSE d.v[n]])

\* Group.all that returns the stored document without the defaults
GroupAll_StoredOnly(obj, doc) ==
    LET r == ValueGet(obj, doc, PyNone)
    IN IF r.ret.k \in {"none", "bool", "int"}
       THEN [r EXCEPT !.exc = "TypeError", !.ret = PyNone, !.src = <<>>]
       ELSE IF r.ret.k = "str" /\ r.ret.v # ""
       THEN [r EXCEPT !.exc = "ValueError", !.ret = PyNone, !.src = <<>>]
       ELSE IF r.ret.k = "list" /\ r.ret.v # <<>>
       THEN [r EXCEPT !.exc = "TypeError", !.ret = PyNone, !.src = <<>>]
       ELSE [r EXCEPT !.ret = IF IsDict(r.ret) THEN r.ret ELSE EmptyDict,
                      !.src = <<>>]

\* Group.all(): a copy of the group's defaults, updated with what
\* `await self()` returns; dict.update raises for what is no mapping and no
\* sequence of pairs
GroupAll(obj, doc) ==
    LET r == ValueGet(obj, doc, PyNone)
    IN IF r.ret.k \in {"none", "bool", "int"}
       THEN [r EXCEPT !.exc = "TypeError", !.ret = PyNone, !.src = <<>>]
       ELSE IF r.ret.k = "str" /\ r.ret.v # ""
       THEN [r EXCEPT !.exc = "ValueError", !.ret = PyNone, !.src = <<>>]
       ELSE IF r.ret.k = "list" /\ r.ret.v # <<>>
       THEN [r EXCEPT !.exc = "TypeError", !.ret = PyNone, !.src = <<>>]
       ELSE [r EXCEPT !.ret = IF IsDict(r.ret)
                               THEN DictUpdate(obj.defaults, r.ret)
                               ELSE obj.defaults,
                      !.src = <<>>]

\* await conf.<scope>(obj).<names>.all(); a Value has no attribute `all`
AllCall(tgt) ==
    LET obj == Resolve(defaults, force_registration, tgt)
    IN IF obj.cls \notin {"Group", "MemberGroup"}
       THEN Raise("AttributeError", data)
       ELSE GroupAll(obj, data)

All(tgt) ==
    /\ last' = Called("all", tgt, PyNone, AllCall(tgt))
    /\ UNCHANGED cogVars
    /\ UNCHANGED <<force_registration, defaults, data, nreg, reglog, nset,
                   written, pc, local>>

KeyOff == <<"o", "f", "f">>
KeyBX == <<"b", "_", "_", "x">>
KeyBY == <<"b", "_", "_", "y">>

\* register_<scope>(on=True, off=False, b__x=0, b__y=1)
AllKwargs ==
    << <<KeyOn, PyBool(TRUE)>>, <<KeyOff, PyBool(FALSE)>>,
       <<KeyBX, PyInt(0)>>, <<KeyBY, PyInt(1)>> >>

AllRoots == {Target(GLOBAL, <<>>, <<>>), Target(USER, <<42>>, <<>>)}

\* the entity's group and the group AllKwargs registers below it
AllGroups ==
    {Target(r.scope, r.ids, n) : r \in AllRoots, n \in {<<>>, <<"b">>}}

\* the leaves AllKwargs registers
AllLeaves ==
    {Target(r.scope, r.ids, n) :
        r \in AllRoots, n \in {<<"on">>, <<"off">>, <<"b", "x">>, <<"b", "y">>}}

NextAll ==
    \/ RegisterAll(AllKwargs)
    \/ \E tgt \in AllLeaves : Read(tgt, PyNone)
    \/ \E tgt \in AllLeaves :
            GroupCommit("write", tgt, LeafVal, LeafVal, WriteCall(tgt, LeafVal))
    \/ \E tgt \in AllGroups : All(tgt)

SpecAll == Init /\ [][NextAll]_vars

---------------------------------------------------------------------------
(* Aggregate reads (all_<scope>, all_members) and scope clears              *)

MaxId == 99

\* a dict whose keys are ints: what the aggregate reads return
PyIntDict(f) == [k |-> "intdict", v |-> f]

\* int(k) succeeds on the key k
IsIntStr(key) == \E n \in 0..MaxId : IntToStr(n) = key

\* int(k) of a key that is the decimal form of an id
ParseInt(key) == CHOOSE n \in 0..MaxId : IntToStr(n) = key

\* a call that raised after the driver calls `calls`
RaiseAfter(exc, doc, calls) ==
    [exc |-> exc, ret |-> PyNone, src |-> <<>>, doc |-> doc, calls |-> calls]

\* the loop `for k, v in dict_.items(): data = group.defaults;
\* data.update(v); ret[int(k)] = data`, as the exception it raises ("none"
\* when it completes) and the mapping it builds
PerEntry(group, dict_) ==
    IF ~IsDict(dict_) THEN [exc |-> "AttributeError", val |-> PyNone]
    ELSE IF \E key \in DOMAIN dict_.v : ~IsDict(dict_.v[key])
    THEN [exc |-> "TypeError", val |-> PyNone]
    ELSE IF \E key \in DOMAIN dict_.v : ~IsIntStr(key)
    THEN [exc |-> "ValueError", val |-> PyNone]
    ELSE [exc |-> "none",
          val |-> PyIntDict([n \in {ParseInt(key) : key \in DOMAIN dict_.v} |->
                    DictUpdate(group.defaults,
                               dict_.v[CHOOSE key \in DOMAIN dict_.v :
                                            ParseInt(key) = n])])]

\* Config._all_from_scope that keeps the driver's string keys
AllFromScope_StrKeys(dflts, force, scope, doc) ==
    LET group == BaseGroup(dflts, force, scope, <<>>, "Group")
        r == ValueGet(group, doc, PyNone)
    IN IF PerEntry(group, r.ret).exc # "none"
       THEN RaiseAfter(PerEntry(group, r.ret).exc, doc, r.calls)
       ELSE [r EXCEPT !.src = <<>>,
                      !.ret = PyDict([key \in DOMAIN r.ret.v |->
                                DictUpdate(group.defaults, r.ret.v[key])])]

\* Config._all_from_scope(scope)
AllFromScope(dflts, force, scope, doc) ==
    LET group == BaseGroup(dflts, force, scope, <<>>, "Group")
        r == ValueGet(group, doc, PyNone)
        ret == PerEntry(group, r.ret)
    IN IF ret.exc # "none" THEN RaiseAfter(ret.exc, doc, r.calls)
       ELSE [r EXCEPT !.ret = ret.val, !.src = <<>>]

\* Config._all_members_from_guild(group, guild_data)
AllMembersFromGuild(group, guild_data) == PerEntry(group, guild_data)

\* the loop of all_members over the guilds of dict_
PerGuild(group, dict_) ==
    IF ~IsDict(dict_) THEN [exc |-> "AttributeError", val |-> PyNone]
    ELSE IF \E key \in DOMAIN dict_.v :
                AllMembersFromGuild(group, dict_.v[key]).exc # "none"
    THEN [exc |-> AllMembersFromGuild(group,
                    dict_.v[CHOOSE key \in DOMAIN dict_.v :
                        AllMembersFromGuild(group, dict_.v[key]).exc
                            # "none"]).exc,
          val |-> PyNone]
    ELSE IF \E key \in DOMAIN dict_.v : ~IsIntStr(key)
    THEN [exc |-> "ValueError", val |-> PyNone]
    ELSE [exc |-> "none",
          val |-> PyIntDict([n \in {ParseInt(key) : key \in DOMAIN dict_.v} |->
                    AllMembersFromGuild(group,
                        dict_.v[CHOOSE key \in DOMAIN dict_.v :
                                    ParseInt(key) = n]).val])]

\* Config.all_members that returns the stored member data without the
\* registered defaults
AllMembers_NoDefaults(dflts, force, guild, doc) ==
    LET group == IF guild = PyNone
                 THEN BaseGroup(EmptyDict, force, MEMBER, <<>>, "Group")
                 ELSE BaseGroup(EmptyDict, force, MEMBER, <<guild>>, "Group")
        r == ValueGet(group, doc, PyNone)
        ret == IF guild = PyNone THEN PerGuild(group, r.ret)
               ELSE AllMembersFromGuild(group, r.ret)
    IN IF ret.exc # "none" THEN RaiseAfter(ret.exc, doc, r.calls)
       ELSE [r EXCEPT !.ret = ret.val, !.src = <<>>]

\* Config.all_members(guild); guild is None or the guild's id
AllMembers(dflts, force, guild, doc) ==
    LET group == IF guild = PyNone
                 THEN BaseGroup(dflts, force, MEMBER, <<>>, "Group")
                 ELSE BaseGroup(dflts, force, MEMBER, <<guild>>, "Group")
        r == ValueGet(group, doc, PyNone)
        ret == IF guild = PyNone THEN PerGuild(group, r.ret)
               ELSE AllMembersFromGuild(group, r.ret)
    IN IF ret.exc # "none" THEN RaiseAfter(ret.exc, doc, r.calls)
       ELSE [r EXCEPT !.ret = ret.val, !.src = <<>>]

\* Config._clear_scope that ignores the ids after the scope
ClearScope_WholeScope(dflts, force, scopes, doc) ==
    IF scopes = <<>>
    THEN GroupSet(NewGroup("Group",
                           [i \in 1..Len(UidChars) |-> PyStr(UidChars[i])],
                           EmptyDict, FALSE, <<>>),
                  doc, EmptyDict)
    ELSE GroupSet(BaseGroup(dflts, force, scopes[1].v, <<>>, "Group"),
                  doc, EmptyDict)

\* Config._clear_scope that clears the whole store whatever scope is named
ClearScope_Everything(dflts, force, scopes, doc) ==
    GroupSet(NewGroup("Group", <<PyStr(unique_identifier)>>, EmptyDict,
                      FALSE, <<>>),
             doc, EmptyDict)

\* Config._clear_scope(*scopes).  Without scopes the Group is built with
\* identifiers=(self.unique_identifier): a str, not a tuple, so
\* Value.identifiers yields its characters one by one
ClearScope(dflts, force, scopes, doc) ==
    IF scopes = <<>>
    THEN GroupSet(NewGroup("Group",
                           [i \in 1..Len(UidChars) |-> PyStr(UidChars[i])],
                           EmptyDict, FALSE, <<>>),
                  doc, EmptyDict)
    ELSE GroupSet(BaseGroup(dflts, force, scopes[1].v, Tail(scopes), "Group"),
                  doc, EmptyDict)

\* a call that may write, counted against the bound max
CommitWithin(max, op, tgt, arg, value, r) ==
    /\ nset + NumSets(r.calls) <= max
    /\ data' = r.doc
    /\ nset' = nset + NumSets(r.calls)
    /\ written' = Log(written, r.calls, value)
    /\ last' = Called(op, tgt, arg, r)
    /\ UNCHANGED cogVars
    /\ UNCHANGED <<force_registration, defaults, nreg, reglog, pc, local>>

\* a call that does not write
Query(op, tgt, arg, r) ==
    /\ last' = Called(op, tgt, arg, r)
    /\ UNCHANGED cogVars
    /\ UNCHANGED <<force_registration, defaults, data, nreg, reglog, nset,
                   written, pc, local>>

---------------------------------------------------------------------------
(* Members of two guilds: writes, Group.clear, clear_all_members and        *)
(* all_members                                                             *)

MaxMemberSets == 3

MemberRoots ==
    {Target(MEMBER, <<42, 7>>, <<>>), Target(MEMBER, <<42, 8>>, <<>>),
     Target(MEMBER, <<43, 7>>, <<>>)}

MemberLeaves == {Target(r.scope, r.ids, <<"on">>) : r \in MemberRoots}

\* the guild argument of all_members / clear_all_members: None or a guild
\* (44 has no member written)
GuildArgs == {PyNone, PyInt(42), PyInt(43), PyInt(44)}

GuildTarget(guild) ==
    Target(MEMBER, IF guild = PyNone THEN <<>> ELSE <<guild.v>>, <<>>)

\* await conf.all_members(guild)
AllMembersOf(guild) ==
    Query("all_members", GuildTarget(guild), guild,
          AllMembers(defaults, force_registration, guild, data))

\* await conf.clear_all_members(guild)
ClearAllMembers(max, guild) ==
    CommitWithin(max, "clear_all_members", GuildTarget(guild), guild,
                 EmptyDict,
                 ClearScope(defaults, force_registration,
                            IF guild = PyNone THEN <<PyStr(MEMBER)>>
                            ELSE <<PyStr(MEMBER), guild>>, data))

NextMembers ==
    \/ RegisterAll(StoreKwargs)
    \/ \E tgt \in MemberLeaves : Read(tgt, PyNone)
    \/ \E tgt \in MemberLeaves :
            CommitWithin(MaxMemberSets, "write", tgt, PyBool(TRUE),
                         PyBool(TRUE), WriteCall(tgt, PyBool(TRUE)))
    \/ \E tgt \in MemberRoots :
            CommitWithin(MaxMemberSets, "clear", tgt, PyNone, EmptyDict,
                         ClearCall(tgt))
    \/ \E guild \in GuildArgs : ClearAllMembers(MaxMemberSets, guild)
    \/ \E guild \in GuildArgs : AllMembersOf(guild)

SpecMembers == Init /\ [][NextMembers]_vars

---------------------------------------------------------------------------
(* One entity per scope and a second guild: writes, all_<scope>,            *)
(* clear_all_<scope> and clear_all                                         *)

MaxScopeSets == 3

ScopeRoots == Roots \cup {Target(GUILD, <<43>>, <<>>)}

ScopeLeaves == {Target(r.scope, r.ids, <<"on">>) : r \in ScopeRoots}

\* the leaves read through an accessor without id and one with two ids
ScopeReads == {l \in ScopeLeaves : l.scope \in {GLOBAL, MEMBER}}

\* the scopes with an all_<scope>(): all_guilds, all_channels, all_roles,
\* all_users
AllScopes == {GUILD, CHANNEL, ROLE, USER}

\* await conf.all_<scope>()
AllOfScope(scope) ==
    Query("all_scope", Target(scope, <<>>, <<>>), PyNone,
          AllFromScope(defaults, force_registration, scope, data))

\* await conf.clear_all_globals() / clear_all_guilds() / clear_all_channels()
\* / clear_all_roles() / clear_all_users()
ClearAllScope(scope) ==
    CommitWithin(MaxScopeSets, "clear_scope", Target(scope, <<>>, <<>>),
                 PyNone, EmptyDict,
                 ClearScope(defaults, force_registration, <<PyStr(scope)>>,
                            data))

\* await conf.clear_all()
ClearAll ==
    CommitWithin(MaxScopeSets, "clear_all", Target(GLOBAL, <<>>, <<>>),
                 PyNone, EmptyDict,
                 ClearScope(defaults, force_registration, <<>>, data))

NextScopes ==
    \/ RegisterAll(StoreKwargs)
    \/ \E tgt \in ScopeReads : Read(tgt, PyNone)
    \/ \E tgt \in ScopeLeaves :
            CommitWithin(MaxScopeSets, "write", tgt, PyBool(TRUE),
                         PyBool(TRUE), WriteCall(tgt, PyBool(TRUE)))
    \/ \E scope \in AllScopes : AllOfScope(scope)
    \/ \E scope \in Scopes \ {MEMBER} : ClearAllScope(scope)
    \/ ClearAllMembers(MaxScopeSets, PyNone)
    \/ ClearAll

SpecScopes == Init /\ [][NextScopes]_vars

---------------------------------------------------------------------------
(* A driver that may fail.  driver.get raises KeyError when nothing is      *)
(* stored at the path; a get or a set may also fail with an error of the   *)
(* backend, which leaves the stored document as it was.                    *)

DriverFault == "OSError"
Faults == {"none", DriverFault}

\* Value._get with `except Exception`: every error of the driver is taken
\* for an absent value
ValueGetFrom_Masks(obj, doc, default, fault) ==
    LET r == DriverGet(doc, Identifiers(obj))
        raised == IF fault # "none" THEN fault
                  ELSE IF ~r.found THEN "KeyError" ELSE "none"
    IN [exc |-> "none",
        ret |-> IF raised = "none" THEN r.val
                ELSE IF default # PyNone THEN default ELSE obj.default,
        src |-> <<>>, doc |-> doc,
        calls |-> <<DrvCall("get", Identifiers(obj))>>]

\* Value._get(default) when driver.get fails with `fault`:
\*     try: ret = await driver.get(self.identifiers)
\*     except KeyError: return default if default is not None else self.default
\*     return ret
ValueGetFrom(obj, doc, default, fault) ==
    LET r == DriverGet(doc, Identifiers(obj))
        raised == IF fault # "none" THEN fault
                  ELSE IF ~r.found THEN "KeyError" ELSE "none"
    IN IF raised \notin {"none", "KeyError"}
       THEN RaiseAfter(raised, doc, <<DrvCall("get", Identifiers(obj))>>)
       ELSE [exc |-> "none",
             ret |-> IF raised = "none" THEN r.val
                     ELSE IF default # PyNone THEN default ELSE obj.default,
             src |-> IF raised = "KeyError" /\ default = PyNone
                        /\ obj.cls = "Value"
                     THEN obj.src ELSE <<>>,
             doc |-> doc,
             calls |-> <<DrvCall("get", Identifiers(obj))>>]

\* Value.set(value) / Group.set(value) when driver.set fails with `fault`
ValueSetFrom(obj, doc, value, fault) ==
    IF obj.cls # "Value" /\ ~IsDict(value) THEN GroupSet(obj, doc, value)
    ELSE IF fault # "none"
    THEN RaiseAfter(fault, doc, <<DrvCall("set", Identifiers(obj))>>)
    ELSE ValueSet(obj, doc, value)

\* await conf.<scope>(obj).<names>(override), the driver failing with fault
FaultyRead(tgt, override, fault) ==
    LET obj == Resolve(defaults, force_registration, tgt)
    IN Query(IF fault = "none" THEN "read" ELSE "read_fault", tgt, override,
             IF obj.cls = "AttributeError" THEN Raise("AttributeError", data)
             ELSE ValueGetFrom(obj, data, override, fault))

\* await conf.<scope>(obj).<names>.set(value), the driver failing with fault
FaultyWrite(tgt, value, fault) ==
    LET obj == Resolve(defaults, force_registration, tgt)
        r == IF obj.cls = "AttributeError" THEN Raise("AttributeError", data)
             ELSE ValueSetFrom(obj, data, value, fault)
    IN /\ nset + NumSets(r.calls) <= MaxGroupSets
       /\ data' = r.doc
       /\ nset' = nset + NumSets(r.calls)
       /\ written' = IF r.exc = "none" THEN Log(written, r.calls, value)
                     ELSE written
       /\ last' = Called(IF fault = "none" THEN "write" ELSE "write_fault",
                         tgt, value, r)
       /\ UNCHANGED cogVars
       /\ UNCHANGED <<force_registration, defaults, nreg, reglog, pc, local>>

FaultLeaves ==
    {Target(r.scope, r.ids, <<"on">>) :
        r \in {Target(GLOBAL, <<>>, <<>>), Target(GUILD, <<42>>, <<>>),
               Target(MEMBER, <<42, 7>>, <<>>)}}

NextFaults ==
    \/ RegisterAll(StoreKwargs)
    \/ \E tgt \in FaultLeaves, override \in AccessOverrides, fault \in Faults :
            FaultyRead(tgt, override, fault)
    \/ \E tgt \in FaultLeaves, fault \in Faults :
            FaultyWrite(tgt, PyBool(TRUE), fault)

SpecFaults == Init /\ [][NextFaults]_vars

---------------------------------------------------------------------------
(* Dynamic access: get_attr / set_attr with names that attribute syntax     *)
(* cannot spell, next to attribute access to registered names              *)

\* <parent>.get_attr(item, resolve=False): the Group or Value itself
GetAttrObj(tgt) ==
    LET g == ParentOf(tgt)
    IN IF g.cls \notin {"Group", "MemberGroup"} THEN Raised(g.identifiers)
       ELSE GroupGetattr(g, LastName(tgt))

\* what a caller can tell of an object: its class and its path
ObjView(obj) ==
    PyList(<<PyStr(obj.cls)>>
             \o [i \in 1..Len(obj.identifiers) |-> PyStr(Identifiers(obj)[i])])

GetAttrRaw(tgt) ==
    Query("get_attr_raw", tgt, PyNone,
          IF GetAttrObj(tgt).cls = "AttributeError"
          THEN Raise("AttributeError", data)
          ELSE [Raise("none", data) EXCEPT !.ret = ObjView(GetAttrObj(tgt))])

\* registered leaf, registered group, unregistered name, and a numeric id
\* as name, at top level and below the group a
DynNames ==
    {<<"on">>, <<"a">>, <<"a", "on">>, <<"x">>, <<"42">>, <<"a", "42">>}

DynTargets == {Target(r.scope, r.ids, n) : r \in GroupRoots, n \in DynNames}

DynVals == {PyBool(TRUE), EmptyDict}

NextDyn ==
    \/ RegisterAll(NestKwargs)
    \/ \E tgt \in DynTargets, override \in AccessOverrides :
            Read(tgt, override)
    \/ \E tgt \in DynTargets, override \in AccessOverrides :
            GetAttr(tgt, override)
    \/ \E tgt \in DynTargets : GetAttrRaw(tgt)
    \/ \E tgt \in DynTargets, value \in DynVals : SetAttr(tgt, value)

SpecDyn == Init /\ [][NextDyn]_vars

---------------------------------------------------------------------------
(* Keys registered with a leaf, None, an empty mapping and a nested key     *)

KeyVal == <<"v", "a", "l">>
KeyBox == <<"b", "o", "x">>

\* register_<scope>(on=True, val=None, box={}, a__on=False)
KindKwargs ==
    << <<KeyOn, PyBool(TRUE)>>, <<KeyVal, PyNone>>, <<KeyBox, EmptyDict>>,
       <<KeyAOn, PyBool(FALSE)>> >>

\* the names KindKwargs registers and one it does not
KindNames == {<<"on">>, <<"val">>, <<"box">>, <<"a">>, <<"a", "on">>, <<"x">>}

KindTargets ==
    {Target(r.scope, r.ids, n) :
        r \in {Target(GLOBAL, <<>>, <<>>), Target(USER, <<42>>, <<>>)},
        n \in KindNames}

NextKinds ==
    \/ RegisterAll(KindKwargs)
    \/ \E tgt \in KindTargets, override \in AccessOverrides :
            Read(tgt, override)
    \/ \E tgt \in KindTargets : GetAttrRaw(tgt)
    \/ \E tgt \in KindTargets : Write(tgt, EmptyDict)

SpecKinds == Init /\ [][NextKinds]_vars

---------------------------------------------------------------------------
(* The reading calls next to one another: read, Group.all, all_<scope>,     *)
(* all_members.  Each is taken with whatever driver calls it makes.        *)

QueryRoots == {Target(GUILD, <<42>>, <<>>), Target(MEMBER, <<42, 7>>, <<>>)}

QueryLeaves == {Target(r.scope, r.ids, n) : r \in QueryRoots, n \in LeafNames}

NextQueries ==
    \/ RegisterAll(StoreKwargs)
    \/ \E tgt \in QueryLeaves :
            CommitWithin(MaxSets, "write", tgt, PyBool(TRUE), PyBool(TRUE),
                         WriteCall(tgt, PyBool(TRUE)))
    \/ \E tgt \in QueryLeaves, override \in AccessOverrides :
            CommitWithin(MaxSets, "read", tgt, override, PyNone,
                         ReadCall(tgt, override))
    \/ \E tgt \in QueryRoots :
            CommitWithin(MaxSets, "all", tgt, PyNone, PyNone, AllCall(tgt))
    \/ \E scope \in AllScopes :
            CommitWithin(MaxSets, "all_scope", Target(scope, <<>>, <<>>),
                         PyNone, PyNone,
                         AllFromScope(defaults, force_registration, scope,
                                      data))
    \/ \E guild \in {PyNone, PyInt(42)} :
            CommitWithin(MaxSets, "all_members", GuildTarget(guild), guild,
                         PyNone,
                         AllMembers(defaults, force_registration, guild, data))

SpecQueries == Init /\ [][NextQueries]_vars

---------------------------------------------------------------------------
(* Writes to the keys of two guilds and a user: sibling keys, the same     *)
(* key of another entity, keys of another scope                            *)

WriteRoots ==
    {Target(GUILD, <<42>>, <<>>), Target(GUILD, <<43>>, <<>>),
     Target(USER, <<42>>, <<>>)}

\* the leaves NestKwargs registers, and a, a leaf until it is registered
WriteTargets ==
    {Target(r.scope, r.ids, n) :
        r \in WriteRoots,
        n \in {<<"on">>, <<"a">>, <<"a", "on">>, <<"a", "b", "c">>}}

NextWrites ==
    \/ RegisterAll(NestKwargs)
    \/ \E tgt \in WriteTargets : Read(tgt, PyNone)
    \/ \E tgt \in WriteTargets :
            GroupCommit("write", tgt, LeafVal, LeafVal, WriteCall(tgt, LeafVal))

SpecWrites == Init /\ [][NextWrites]_vars

---------------------------------------------------------------------------
(* A caller that keeps the list it registers as a default:                 *)
(*     x = []                                                              *)
(*     conf.register_<scope>(roles=x)                                      *)
(*     x.append(item)                                                      *)
(* A task's local.src says where in Config._defaults the object it holds   *)
(* lives, <<>> when the object is not one of that tree.                    *)

\* deepcopy(kwargs): the object registered is a new one, not the caller's
\* (which would live at src once registered)
DeepCopy_SameObject(src) == src

DeepCopy(src) == <<>>

KeyRoles == <<"r", "o", "l", "e", "s">>

CopyScopes == {GUILD, USER}

CopyTarget(scope) == Target(scope, <<42>>, <<"roles">>)

\* x = []; conf.register_<scope>(roles=x) by task t
RegisterHeld(t, scope) ==
    /\ pc[t] = "idle"
    /\ nreg < MaxRegs
    /\ \E r \in RegisterDefault(defaults, scope, << <<KeyRoles, EmptyList>> >>) :
        /\ defaults' = r.val
        /\ last' = Called("register", Target(scope, <<>>, <<>>), PyInt(t),
                          Raise(r.exc, data))
        /\ reglog' = Append(reglog, [scope |-> scope, call |-> 0, exc |-> r.exc])
        /\ pc' = [pc EXCEPT ![t] = IF r.exc = "none" THEN "held" ELSE "failed"]
        /\ local' = [local EXCEPT ![t] =
                        [tgt |-> CopyTarget(scope),
                         src |-> DeepCopy(<<scope, "roles">>),
                         val |-> EmptyList]]
    /\ nreg' = nreg + 1
    /\ UNCHANGED cogVars
    /\ UNCHANGED <<force_registration, data, nset, written>>

NextCopy ==
    \/ \E t \in Tasks, scope \in CopyScopes : RegisterHeld(t, scope)
    \/ \E t \in Tasks : TMutate(t)
    \/ \E scope \in CopyScopes, override \in TaskOverrides :
            Read(CopyTarget(scope), override)

SpecCopy == Init /\ [][NextCopy]_vars

---------------------------------------------------------------------------
(* The bank of the Economy cog (cogs/economy.py).  Economy.bank maps a     *)
(* user id to the account; the model keeps the balance of each account.    *)
(* fileIO(..., "save", self.bank) writes the bank to bank.json and leaves  *)
(* self.bank as it is.                                                     *)

Users == 1..3

\* Economy.account_check(id)
account_check(b, id) == id \in DOMAIN b

\* Economy.add_money(id, amount)
add_money(b, id, amount) ==
    IF account_check(b, id) THEN [b EXCEPT ![id] = @ + amount] ELSE b

\* Economy.withdraw_money(id, amount): nothing happens without the funds
withdraw_money(b, id, amount) ==
    IF account_check(b, id) /\ b[id] >= amount
    THEN [b EXCEPT ![id] = @ - amount]
    ELSE b

\* Economy.enough_money(id, amount)
enough_money_Always(b, id, amount) == TRUE

enough_money(b, id, amount) == account_check(b, id) /\ b[id] >= amount

\* Economy.set_money(id, amount)
set_money(b, id, amount) ==
    IF account_check(b, id) THEN [b EXCEPT ![id] = amount] ELSE b

\* the balance of a new account
OpeningBalance == 100

\* a command of the cog was answered
Answered(cmd, author, user, sum, msg) ==
    [cmd |-> cmd, author |-> author, user |-> user, sum |-> sum, msg |-> msg]

\* [p]bank register
BankRegister(author) ==
    /\ ncmd < MaxCmds
    /\ IF author \notin DOMAIN bank
       THEN /\ bank' = [u \in DOMAIN bank \cup {author} |->
                            IF u = author THEN OpeningBalance ELSE bank[u]]
            /\ said' = Answered("register", author, author, 0, "opened")
       ELSE /\ bank' = bank
            /\ said' = Answered("register", author, author, 0, "already")
    /\ ncmd' = ncmd + 1
    /\ UNCHANGED <<game_state, players, timer, loops, menu>>
    /\ UNCHANGED confVars

\* [p]bank set <user> <sum>
BankSet(author, user, sum) ==
    /\ ncmd < MaxCmds
    /\ bank' = set_money(bank, user, sum)
    /\ said' = Answered("set", author, user, sum,
                        IF account_check(bank, user) THEN "set" ELSE "noaccount")
    /\ ncmd' = ncmd + 1
    /\ UNCHANGED <<game_state, players, timer, loops, menu>>
    /\ UNCHANGED confVars

\* Economy.transfer(ctx, user, sum) from the author of the message: the
\* bank it leaves and the answer
TransferCall(b, author, user, sum) ==
    IF author = user THEN [bank |-> b, msg |-> "yourself"]
    ELSE IF sum < 1 THEN [bank |-> b, msg |-> "atleast1"]
    ELSE IF account_check(b, user)
         THEN IF enough_money(b, author, sum)
              THEN [bank |-> add_money(withdraw_money(b, author, sum), user, sum),
                    msg |-> "transferred"]
              ELSE [bank |-> b, msg |-> "nosum"]
         ELSE [bank |-> b, msg |-> "noaccount"]

\* [p]bank transfer <user> <sum>; no await between the checks and the
\* two updates
Transfer(author, user, sum) ==
    /\ ncmd < MaxCmds
    /\ LET r == TransferCall(bank, author, user, sum) IN
        /\ bank' = r.bank
        /\ said' = Answered("transfer", author, user, sum, r.msg)
    /\ ncmd' = ncmd + 1
    /\ UNCHANGED <<game_state, players, timer, loops, menu>>
    /\ UNCHANGED confVars

Sums == {0, 1, 100, 101}

SetSums == {-5, 0}

NextBank ==
    \/ \E author \in Users : BankRegister(author)
    \/ \E author \in Users, user \in Users, sum \in SetSums :
            BankSet(author, user, sum)
    \/ \E author \in Users, user \in Users, sum \in Sums :
            Transfer(author, user, sum)

SpecBank == Init /\ [][NextBank]_vars

---------------------------------------------------------------------------
(* Blackjack of the Economy cog.  'bj start' awaits Economy.blackjack,     *)
(* a loop over game_state that suspends at every bot.say / bot.upload /    *)
(* asyncio.sleep; the other commands run while it is suspended.  A loop    *)
(* stands "off" before its start command, at the await it is suspended at  *)
(* while it runs, and "ended" after it returned ("refused" when the start  *)
(* command launched no loop).  The cards are not modelled: a hand's        *)
(* outcome against the dealer is any of those the deck allows.             *)

Dealer == 0

BjUsers == {1, 2}

\* settings.json: the bet every player places lies within BLACKJACK_MIN
\* and BLACKJACK_MAX, the game phase lasts BLACKJACK_GAME_TIME seconds
Settings == [BLACKJACK_GAME_TIME |-> 1, BET |-> 10]

\* the loop of this start command is running (suspended at an await)
Active(pos) == pos \notin {"off", "refused", "ended", "died"}

\* for player in self.players: if player != "dealer" and not standing
all_stood(pl) == \A p \in DOMAIN pl \ {Dealer} : pl[p].standing

RECURSIVE blackjack(_, _)
\* Economy.blackjack from a point of its loop body to its next await:
\* point A is the while test, C the second test of "pregame", D that of
\* "drawing", E that of "game", F that of "endgame"; s is
\* [gs, players, timer], the result adds the position reached
blackjack(point, s) ==
    CASE point = "A" ->
            IF s.gs = "null" THEN [s EXCEPT !.pos = "ended"]
            ELSE IF s.gs = "pregame"
                 THEN [s EXCEPT !.players = NoPlayers, !.pos = "started"]
                 ELSE blackjack("C", s)
      [] point = "C" ->
            IF s.gs = "pregame"
            THEN IF DOMAIN s.players = {}
                 THEN [s EXCEPT !.pos = "aborting"]
                 ELSE blackjack("D", [s EXCEPT !.gs = "drawing"])
            ELSE blackjack("D", s)
      [] point = "D" ->
            IF s.gs = "drawing" THEN [s EXCEPT !.pos = "dealing"]
            ELSE blackjack("E", s)
      [] point = "E" ->
            IF s.gs = "game"
            THEN IF s.timer < Settings.BLACKJACK_GAME_TIME
                       /\ ~all_stood(s.players)
                 THEN [s EXCEPT !.timer = @ + 1, !.pos = "game_sleep"]
                 ELSE blackjack("F", [s EXCEPT !.gs = "endgame"])
            ELSE blackjack("F", s)
      [] point = "F" ->
            IF s.gs = "endgame"
            THEN \* draw_card("dealer"): self.players["dealer"]
                 IF Dealer \in DOMAIN s.players
                 THEN [s EXCEPT !.pos = "settling"]
                 ELSE [s EXCEPT !.pos = "died"]
            ELSE blackjack("A", s)

\* the cog's blackjack state as the loop sees it
BjState == [gs |-> game_state, players |-> players, timer |-> timer,
            pos |-> "none"]

\* the loop of start command l ran up to position s.pos
Suspend(l, s) ==
    /\ game_state' = s.gs
    /\ players' = s.players
    /\ timer' = s.timer
    /\ loops' = [loops EXCEPT ![l] = s.pos]

\* [p]bj start, the l-th start command
BjStart(l) ==
    /\ loops[l] = "off"
    /\ \A k \in Loops : k < l => loops[k] # "off"
    /\ IF game_state = "null"
       THEN /\ Suspend(l, blackjack("A", [BjState EXCEPT !.gs = "pregame"]))
            /\ said' = Answered("start", 0, l, 0, "started")
       ELSE /\ loops' = [loops EXCEPT ![l] = "refused"]
            /\ said' = Answered("start", 0, l, 0, "inprogress")
            /\ UNCHANGED <<game_state, players, timer>>
    /\ UNCHANGED <<bank, ncmd, menu>>
    /\ UNCHANGED confVars

\* [p]bj stop
BjStop ==
    /\ IF game_state = "null"
       THEN /\ said' = Answered("stop", 0, 0, 0, "norun")
            /\ UNCHANGED game_state
       ELSE /\ game_state' = "null"
            /\ said' = Answered("stop", 0, 0, 0, "stopped")
    /\ UNCHANGED <<bank, players, timer, loops, ncmd, menu>>
    /\ UNCHANGED confVars

\* [p]bj bet <bet> by author, with a bet within the limits of the settings
BjBet(author) ==
    /\ ncmd < MaxCmds
    /\ LET bet == Settings.BET IN
       IF enough_money(bank, author, bet) /\ game_state = "pregame"
       THEN /\ bank' = withdraw_money(
                          IF author \in DOMAIN players
                          THEN add_money(bank, author, players[author].bet)
                          ELSE bank,
                          author, bet)
            /\ players' = [p \in DOMAIN players \cup {author} |->
                              IF p = author
                              THEN [bet |-> bet, standing |-> FALSE]
                              ELSE players[p]]
            /\ said' = Answered("bet", author, 0, bet, "placed")
       ELSE /\ said' = Answered("bet", author, 0, bet,
                                IF game_state = "pregame" THEN "nofunds"
                                ELSE IF game_state = "null" THEN "norun"
                                ELSE "inprogress")
            /\ UNCHANGED <<bank, players>>
    /\ ncmd' = ncmd + 1
    /\ UNCHANGED <<game_state, timer, loops, menu>>
    /\ UNCHANGED confVars

\* [p]bj stand by a player of the game
BjStand(author) ==
    /\ author \in DOMAIN players
    /\ game_state = "game" /\ ~players[author].standing
    /\ players' = [players EXCEPT ![author].standing = TRUE]
    /\ said' = Answered("stand", author, 0, 0, "stood")
    /\ UNCHANGED <<bank, game_state, timer, loops, ncmd, menu>>
    /\ UNCHANGED confVars

\* what add_money gets for a hand at the end of a game: nothing, the bet
\* (push), twice the bet, int(bet * 2.5) for a blackjack
Payouts(bet) == {0, bet, 2 * bet, (5 * bet) \div 2}

RECURSIVE PayAll(_, _, _)
\* the banks the payouts to the players in ps can leave
PayAll(b, pl, ps) ==
    IF ps = {} THEN {b}
    ELSE LET p == CHOOSE x \in ps : TRUE IN
         UNION {PayAll(add_money(b, p, amount), pl, ps \ {p}) :
                    amount \in Payouts(pl[p].bet)}

\* the loop of start command l is resumed at the await it is suspended at
\* and runs to its next await
BjResume(l) ==
    /\ Active(loops[l])
    /\ CASE loops[l] = "started" ->
                \* line 340: self.timer = 0, then the pre-game sleep
                /\ Suspend(l, [BjState EXCEPT !.timer = 0, !.pos = "pre_sleep"])
                /\ UNCHANGED bank
         [] loops[l] = "pre_sleep" ->
                /\ Suspend(l, blackjack("C", BjState))
                /\ UNCHANGED bank
         [] loops[l] = "aborting" ->
                \* line 346: self.game_state = "null"
                /\ Suspend(l, blackjack("D", [BjState EXCEPT !.gs = "null"]))
                /\ UNCHANGED bank
         [] loops[l] = "dealing" ->
                \* lines 373-380: the dealer joins, self.game_state = "game"
                /\ Suspend(l, blackjack("E",
                        [BjState EXCEPT
                            !.players = [p \in DOMAIN players \cup {Dealer} |->
                                IF p = Dealer
                                THEN [bet |-> 0, standing |-> FALSE]
                                ELSE players[p]],
                            !.gs = "game"]))
                /\ UNCHANGED bank
         [] loops[l] = "game_sleep" ->
                /\ Suspend(l, blackjack("F", BjState))
                /\ UNCHANGED bank
         [] loops[l] = "settling" ->
                \* lines 403-461: the payouts, self.game_state = "pregame",
                \* then the sleep of three seconds
                /\ bank' \in PayAll(bank, players, DOMAIN players \ {Dealer})
                /\ Suspend(l, [BjState EXCEPT !.gs = "pregame",
                                              !.pos = "end_sleep"])
         [] loops[l] = "end_sleep" ->
                /\ Suspend(l, blackjack("A", BjState))
                /\ UNCHANGED bank
    /\ said' = Answered("resume", 0, l, 0, loops[l])
    /\ UNCHANGED <<ncmd, menu>>
    /\ UNCHANGED confVars

NextBj ==
    \/ \E author \in BjUsers : BankRegister(author)
    \/ \E l \in Loops : BjStart(l)
    \/ BjStop
    \/ \E author \in BjUsers : BjBet(author)
    \/ \E author \in BjUsers : BjStand(author)
    \/ \E l \in Loops : BjResume(l)

SpecBj == Init /\ [][NextBj]_vars

---------------------------------------------------------------------------
(* The emoji menu (redbot/core/utils/menus.py).  A menu on display is      *)
(* [len, page, start]: len(pages), the index of the page shown and the     *)
(* index the menu was opened with; the handlers of the reactions call      *)
(* menu(...) again with the index they computed.                           *)

MaxPages == 4

\* current_page = pages[page]: Python takes -len .. len-1 and raises
\* IndexError for every other index
IndexOk(len, page) == -len <= page /\ page <= len - 1

\* menu(ctx, pages, controls, message, page, timeout) up to the wait for a
\* reaction: the menu on display, none after the IndexError
MenuShow(len, start, page) ==
    IF IndexOk(len, page) THEN [len |-> len, page |-> page, start |-> start]
    ELSE NoMenu

\* next_page: the index it hands to menu
next_page_NoWrap(len, page) == page + 1

next_page(len, page) == IF page = len - 1 THEN 0 ELSE page + 1

\* prev_page: the index it hands to menu
prev_page(len, page) == IF page = 0 THEN len - 1 ELSE page - 1

\* a command opens a menu of len pages at index page
MenuOpen(len, page) ==
    /\ menu = NoMenu
    /\ ncmd < MaxCmds
    /\ menu' = MenuShow(len, page, page)
    /\ said' = Answered("menu", 0, len, page,
                        IF IndexOk(len, page) THEN "shown" ELSE "IndexError")
    /\ ncmd' = ncmd + 1
    /\ UNCHANGED <<bank, game_state, players, timer, loops>>
    /\ UNCHANGED confVars

\* the author reacts with the emoji of next_page
ReactNext ==
    /\ menu # NoMenu
    /\ ncmd < MaxCmds
    /\ LET page == next_page(menu.len, menu.page) IN
        /\ menu' = MenuShow(menu.len, menu.start, page)
        /\ said' = Answered("next", 0, menu.page, page,
                            IF IndexOk(menu.len, page) THEN "shown"
                            ELSE "IndexError")
    /\ ncmd' = ncmd + 1
    /\ UNCHANGED <<bank, game_state, players, timer, loops>>
    /\ UNCHANGED confVars

\* the author reacts with the emoji of prev_page
ReactPrev ==
    /\ menu # NoMenu
    /\ ncmd < MaxCmds
    /\ LET page == prev_page(menu.len, menu.page) IN
        /\ menu' = MenuShow(menu.len, menu.start, page)
        /\ said' = Answered("prev", 0, menu.page, page,
                            IF IndexOk(menu.len, page) THEN "shown"
                            ELSE "IndexError")
    /\ ncmd' = ncmd + 1
    /\ UNCHANGED <<bank, game_state, players, timer, loops>>
    /\ UNCHANGED confVars

\* the author reacts with the emoji of close_menu, or nobody reacts within
\* the timeout
MenuClose ==
    /\ menu # NoMenu
    /\ menu' = NoMenu
    /\ said' = Answered("close", 0, menu.page, 0, "closed")
    /\ UNCHANGED <<bank, game_state, players, timer, loops, ncmd>>
    /\ UNCHANGED confVars

NextMenu ==
    \/ \E len \in 1..MaxPages : \E page \in -1..len : MenuOpen(len, page)
    \/ ReactNext
    \/ ReactPrev
    \/ MenuClose

SpecMenu == Init /\ [][NextMenu]_vars

---------------------------------------------------------------------------
(* Properties of leaf reads and writes *)

\* the key of tgt was registered by RegisterAll(StoreKwargs)
Registered(tgt) ==
    /\ nreg > 0
    /\ Len(tgt.names) = 1
    /\ \E i \in 1..Len(StoreKwargs) : JoinChars(StoreKwargs[i][1]) = tgt.names[1]

\* the default StoreKwargs registers for the key of tgt
RegisteredDefault(tgt) ==
    LET i == CHOOSE j \in 1..Len(StoreKwargs) :
                JoinChars(StoreKwargs[j][1]) = tgt.names[1]
    IN StoreKwargs[i][2]

PathOf(tgt) == Identifiers(Resolve(defaults, force_registration, tgt))

\* no driver.set has been made at, above or below path
Untouched(path) == \A e \in written : ~Related(e[1], path)

\* C1: for a registered leaf key k with default d, in every scope, a read
\* of k before any write returns d, a read of k after a write of v to k
\* returns v, and right after the write of v a read would return v.
C1_ReadDefaultThenWritten ==
    Registered(last.tgt) =>
        /\ (last.op = "read" /\ last.arg = PyNone
                /\ Untouched(PathOf(last.tgt)))
            => (last.exc = "none" /\ last.ret = RegisteredDefault(last.tgt))
        /\ (last.op = "read" /\ last.arg = PyNone)
            => \A e \in written :
                    e[1] = PathOf(last.tgt)
                        => (last.exc = "none" /\ last.ret = e[2])
        /\ last.op = "write"
            => /\ last.exc = "none"
               /\ ReadCall(last.tgt, PyNone).exc = "none"
               /\ ReadCall(last.tgt, PyNone).ret = last.arg

\* a member-scope key was written True and then read back
C1_Witness ==
    /\ last.op = "read" /\ last.arg = PyNone /\ Registered(last.tgt)
    /\ last.tgt.scope = MEMBER
    /\ <<PathOf(last.tgt), PyBool(TRUE)>> \in written
    /\ last.ret = PyBool(TRUE)

\* C2: for a registered leaf key k with default d, also under strict
\* registration, after v was written to k the call k.clear() succeeds and a
\* read of k returns d again.
C2_ValueClearResets ==
    (/\ last.op = "clear" /\ Registered(last.tgt)
     /\ \E e \in written : e[1] = PathOf(last.tgt))
        => /\ last.exc = "none"
           /\ ReadCall(last.tgt, PyNone).ret = RegisteredDefault(last.tgt)

\* C3: read(override) returns override when nothing is stored at the path
\* and override is not None (also when override is falsy), the registered
\* default (None for an unregistered key) when override is None, and the
\* stored value whenever one was written, whatever override is.
C3_OverrideOnlyWhenUnset ==
    (last.op = "read" /\ last.exc = "none") =>
        /\ (Untouched(PathOf(last.tgt)) /\ last.arg # PyNone)
            => last.ret = last.arg
        /\ (Untouched(PathOf(last.tgt)) /\ last.arg = PyNone)
            => last.ret = IF Registered(last.tgt)
                          THEN RegisteredDefault(last.tgt) ELSE PyNone
        /\ \A e \in written : e[1] = PathOf(last.tgt) => last.ret = e[2]

\* the falsy override 0 was returned for an unset key registered with False
C3_Witness ==
    /\ last.op = "read" /\ last.exc = "none" /\ Registered(last.tgt)
    /\ last.tgt.names = <<"on">>
    /\ Untouched(PathOf(last.tgt))
    /\ last.arg = PyInt(0) /\ last.ret = PyInt(0)

---------------------------------------------------------------------------
(* Properties of scoped edits *)

\* x is a list holding item
Holds(x, item) == x.k = "list" /\ \E i \in 1..Len(x.v) : x.v[i] = item

ListDefault(tgt) == Registered(tgt) /\ RegisteredDefault(tgt).k = "list"

\* C4: a scoped edit on a key registered with a list default that appends an
\* item and exits normally persists it: an independent read of the key
\* observes the item.
C4_EditPersists ==
    (last.op = "edit" /\ ListDefault(last.tgt))
        => /\ last.exc = "none"
           /\ Holds(ReadCall(last.tgt, PyNone).ret, last.arg)

Roles42 == Target(GUILD, <<42>>, <<"roles">>)
Roles43 == Target(GUILD, <<43>>, <<"roles">>)

\* C5: with guild default roles = [], after a scoped edit on guild 42
\* appended "admin" (nothing else having written either guild's roles), a
\* read of guild 42's roles returns ["admin"] and one of guild 43's
\* returns [].
C5_EditPerGuild ==
    (/\ last.op = "edit" /\ last.tgt = Roles42 /\ Registered(Roles42)
     /\ Untouched(PathOf(Roles43))
     /\ \A e \in written :
            Related(e[1], PathOf(Roles42))
                => e = <<PathOf(Roles42), PyList(<<EditItem>>)>>)
        => /\ ReadCall(Roles42, PyNone).ret = PyList(<<EditItem>>)
           /\ ReadCall(Roles43, PyNone).ret = EmptyList

\* what the history says a read of tgt returns
Expected(tgt) ==
    IF \E e \in written : e[1] = PathOf(tgt)
    THEN (CHOOSE e \in written : e[1] = PathOf(tgt))[2]
    ELSE IF Registered(tgt) THEN RegisteredDefault(tgt) ELSE PyNone

\* C6: a scoped edit on a key whose value is not a mutable container fails
\* with an error before any driver read or write, and the value read
\* afterwards is the one from before.
C6_EditImmutableFails ==
    (/\ last.op \in {"edit", "edit_raise"}
     /\ \/ Untouched(PathOf(last.tgt))
        \/ \E e \in written : e[1] = PathOf(last.tgt)
     /\ Expected(last.tgt).k \notin {"list", "dict"})
        => /\ last.exc # "none"
           /\ last.calls = <<>>
           /\ ReadCall(last.tgt, PyNone).ret = Expected(last.tgt)

\* an edit was tried on guild 42's key `on`, registered with False
C6_Witness ==
    /\ last.op = "edit" /\ last.tgt = Target(GUILD, <<42>>, <<"on">>)
    /\ Registered(last.tgt) /\ Untouched(PathOf(last.tgt))
    /\ last.exc # "none"

\* C7: when the edit block raises after appending, the appended item is
\* still committed (a later read observes it) and the block's exception
\* reaches the caller.
C7_EditCommitsOnRaise ==
    (last.op = "edit_raise" /\ ListDefault(last.tgt))
        => /\ last.exc = "RuntimeError"
           /\ Holds(ReadCall(last.tgt, PyNone).ret, last.arg)

---------------------------------------------------------------------------
(* Properties of concurrent callers *)

\* C8: there is no locking across calls: whatever other tasks have stored
\* since a task read, the write the task would make succeeds and stores
\* exactly the object the task holds, and after a task's write a read
\* returns that task's object; so an item another task stored in between
\* is lost.
C8_LastWriteWins ==
    /\ \A t \in Tasks :
            pc[t] \in {"held", "mutated"}
                => LET r == WriteCall(local[t].tgt, LocalVal(t))
                   IN /\ r.exc = "none"
                      /\ DriverGet(r.doc, PathOf(local[t].tgt)).found
                      /\ DriverGet(r.doc, PathOf(local[t].tgt)).val
                            = LocalVal(t)
    /\ (last.op = "twrite" /\ last.exc = "none")
        => ReadCall(last.tgt, PyNone).ret = LocalVal(last.arg.v)

\* two tasks appended to the same key and wrote; the stored list holds the
\* item of one and not the item of the other
C8_Witness ==
    \E t \in Tasks, u \in Tasks :
        /\ t # u
        /\ pc[t] = "done" /\ pc[u] = "done"
        /\ local[t].tgt = local[u].tgt
        /\ Holds(LocalVal(t), Item(t)) /\ Holds(LocalVal(u), Item(u))
        /\ Holds(ReadCall(local[t].tgt, PyNone).ret, Item(u))
        /\ ~Holds(ReadCall(local[t].tgt, PyNone).ret, Item(t))

\* C9: the defaults tree is immutable once registered: whatever callers do
\* with the objects their reads returned, a read of a registered key that
\* was never written, in any entity, returns the registered default.
C9_DefaultsImmutable ==
    \A tgt \in TaskLeaves :
        (Registered(tgt) /\ Untouched(PathOf(tgt)))
            => ReadCall(tgt, PyNone).ret = RegisteredDefault(tgt)

---------------------------------------------------------------------------
(* Properties of registration *)

\* what is registered at path of a defaults tree
RECURSIVE KindAt(_, _)
KindAt(tree, path) ==
    IF path = <<>> THEN (IF IsDict(tree) THEN "group" ELSE "leaf")
    ELSE IF IsDict(tree) /\ HasKey(tree, Head(path))
         THEN KindAt(tree.v[Head(path)], Tail(path))
         ELSE "absent"

\* the defaults tree of a scope
ScopeTree(dflts, scope) ==
    IF HasKey(dflts, scope) THEN dflts.v[scope] ELSE EmptyDict

\* what each call of RegPool registers: <<path, kind>>
RegShape ==
    << {<<(<<"a">>), "leaf">>},
       {<<(<<"a">>), "group">>},
       {<<(<<"a">>), "group">>, <<(<<"a", "b">>), "leaf">>},
       {<<(<<"a">>), "group">>, <<(<<"a", "b">>), "leaf">>},
       {<<(<<"a">>), "group">>, <<(<<"a", "b">>), "group">>,
        <<(<<"a", "b", "c">>), "leaf">>},
       {<<(<<"a">>), "group">>, <<(<<"a", "b">>), "group">>,
        <<(<<"a", "b", "c">>), "leaf">>},
       {<<(<<"a">>), "leaf">>},
       {<<(<<"a">>), "group">>, <<(<<"a", "c">>), "leaf">>},
       {<<(<<"b">>), "leaf">>, <<(<<"a">>), "group">>,
        <<(<<"a", "c">>), "leaf">>},
       {<<(<<"a">>), "group">>, <<(<<"a", "d">>), "leaf">>,
        <<(<<"a", "b">>), "group">>, <<(<<"a", "b", "c">>), "leaf">>},
       {}, {}, {<<(<<"b">>), "leaf">>} >>

\* the paths at which call i registers a leaf over a group or a group over
\* a leaf of tree
Clashes(tree, i) ==
    {e \in RegShape[i] : KindAt(tree, e[1]) \notin {"absent", e[2]}}

\* C10: a registration call that registers a leaf where a group is
\* registered, or a group where a leaf is, at any depth and whether the
\* group is given as a mapping or with '__', raises the conflict error
\* (KeyError) and leaves leaf or group there as it was.
C10_ConflictRaises ==
    [][(/\ last'.op = "register"
        /\ Clashes(ScopeTree(defaults, last'.tgt.scope), last'.arg.v) # {})
        => /\ last'.exc = "KeyError"
           /\ \A e \in Clashes(ScopeTree(defaults, last'.tgt.scope),
                               last'.arg.v) :
                KindAt(ScopeTree(defaults', last'.tgt.scope), e[1])
                    = KindAt(ScopeTree(defaults, last'.tgt.scope), e[1])]_vars

\* a__b__c=0 was refused where a.b is registered as a leaf
C10_Witness ==
    /\ last.op = "register" /\ last.exc = "KeyError"
    /\ last.arg = PyInt(5)
    /\ KindAt(ScopeTree(defaults, last.tgt.scope), <<"a", "b">>) = "leaf"

\* the entity whose keys are read in a scope of RegScopes
RegTarget(scope, names) ==
    Target(scope, IF scope = GLOBAL THEN <<>> ELSE <<42>>, names)

\* the leaf defaults each call of RegPool registers: <<path, default>>
RegLeaves ==
    << {<<(<<"a">>), PyBool(TRUE)>>},
       {},
       {<<(<<"a", "b">>), PyBool(FALSE)>>},
       {<<(<<"a", "b">>), PyBool(FALSE)>>},
       {<<(<<"a", "b", "c">>), PyInt(0)>>},
       {<<(<<"a", "b", "c">>), PyInt(0)>>},
       {<<(<<"a">>), PyBool(FALSE)>>},
       {<<(<<"a", "c">>), PyBool(TRUE)>>},
       {<<(<<"b">>), PyInt(1)>>, <<(<<"a", "c">>), PyBool(FALSE)>>},
       {<<(<<"a", "d">>), PyInt(1)>>, <<(<<"a", "b", "c">>), PyInt(0)>>},
       {}, {}, {<<(<<"b">>), PyInt(1)>>} >>

\* the registration calls made so far in a scope, as indices of reglog
CallsIn(scope) == {j \in 1..Len(reglog) : reglog[j].scope = scope}

\* C11: a registration call that fails with the conflict error leaves the
\* defaults tree of its scope exactly as it was before the call, also when
\* the call carried other keys that do not conflict or when the conflict
\* lies inside a nested mapping.
C11_FailedRegistrationKeepsTree ==
    [][(last'.op = "register" /\ last'.exc = "KeyError")
        => ScopeTree(defaults', last'.tgt.scope)
                = ScopeTree(defaults, last'.tgt.scope)]_vars

\* C12: re-registering a leaf key with another default is no conflict and
\* the latest default is the one an unset read returns: of two calls a=True
\* and a=False made in one scope, in either order, the later one succeeds
\* and, while no later call registers a again, a reads its default.
C12_ReRegisterLatestWins ==
    \A scope \in RegScopes : \A j \in CallsIn(scope), k \in CallsIn(scope) :
        (/\ j < k
         /\ {reglog[j].call, reglog[k].call} = {1, 7}
         /\ reglog[j].exc = "none")
            => /\ reglog[k].exc = "none"
               /\ (\A l \in CallsIn(scope) : l > k => reglog[l].call \notin {1, 7})
                    => /\ ReadCall(RegTarget(scope, <<"a">>), PyNone).exc = "none"
                       /\ ReadCall(RegTarget(scope, <<"a">>), PyNone).ret
                            = RegPool[reglog[k].call][1][2]

\* a=True then a=False were registered globally and a reads False
C12_Witness ==
    /\ Len(reglog) = 2
    /\ reglog[1] = [scope |-> GLOBAL, call |-> 1, exc |-> "none"]
    /\ reglog[2] = [scope |-> GLOBAL, call |-> 7, exc |-> "none"]
    /\ ReadCall(RegTarget(GLOBAL, <<"a">>), PyNone).ret = PyBool(FALSE)

\* the leaf defaults registered in a scope by its successful calls:
\* <<path, default>> of the latest call registering path
Latest(scope) ==
    {e \in UNION {RegLeaves[reglog[k].call] : k \in CallsIn(scope)} :
        \E k \in CallsIn(scope) :
            /\ e \in RegLeaves[reglog[k].call]
            /\ \A l \in CallsIn(scope) :
                    l > k => \A f \in RegLeaves[reglog[l].call] : f[1] # e[1]}

\* an unset read in the scope returns, for every path of leaves, its default
ReadsDefaults(scope, leaves) ==
    \A e \in leaves :
        /\ ReadCall(RegTarget(scope, e[1]), PyNone).exc = "none"
        /\ ReadCall(RegTarget(scope, e[1]), PyNone).ret = e[2]

\* the calls made in the scope all succeeded
AllSucceeded(scope) == \A k \in CallsIn(scope) : reglog[k].exc = "none"

\* C13: registering a__b=v and registering a={"b": v} are equivalent, at
\* depth 2 and 3: from every defaults tree the two calls have the same
\* outcomes (the same tree, or the same error), and after either one
\* succeeded an unset read of a.b (of a.b.c) returns v.
C13_NestedEquivalent ==
    \A scope \in RegScopes :
        /\ RegisterDefault(defaults, scope, RegPool[3])
                = RegisterDefault(defaults, scope, RegPool[4])
        /\ RegisterDefault(defaults, scope, RegPool[5])
                = RegisterDefault(defaults, scope, RegPool[6])
        /\ \A k \in CallsIn(scope) :
              (/\ reglog[k].call \in 3..6 /\ reglog[k].exc = "none"
               /\ \A l \in CallsIn(scope) : l <= k \/ reglog[l].exc # "none")
                => ReadsDefaults(scope, RegLeaves[reglog[k].call])

\* a__b__c=0 was registered for guilds, and registering a={"b": {"c": 0}}
\* there would leave the tree as it is
C13_Witness ==
    /\ reglog = <<[scope |-> GUILD, call |-> 5, exc |-> "none"]>>
    /\ ReadCall(RegTarget(GUILD, <<"a", "b", "c">>), PyNone).ret = PyInt(0)
    /\ RegisterDefault(defaults, GUILD, RegPool[6])
            = {[exc |-> "none", val |-> defaults]}

\* C14: successive registrations of a scope merge: after calls that all
\* succeeded, every leaf key registered so far reads the default of the
\* latest call that registered it.
C14_RegistrationsMerge ==
    \A scope \in RegScopes :
        AllSucceeded(scope) => ReadsDefaults(scope, Latest(scope))

\* a__b=False, then a__c=True were registered globally; both read back
C14_Witness ==
    /\ Len(reglog) = 2
    /\ reglog[1] = [scope |-> GLOBAL, call |-> 4, exc |-> "none"]
    /\ reglog[2] = [scope |-> GLOBAL, call |-> 8, exc |-> "none"]
    /\ ReadCall(RegTarget(GLOBAL, <<"a", "b">>), PyNone).ret = PyBool(FALSE)
    /\ ReadCall(RegTarget(GLOBAL, <<"a", "c">>), PyNone).ret = PyBool(TRUE)

\* a segment that is no bare identifier: empty, leading digit, or a space
BadSegment(seg) ==
    \/ seg = <<>>
    \/ seg[1] \in Digits
    \/ \E i \in 1..Len(seg) : seg[i] = " "

\* the bad segments of the keys of call i
BadSegments(i) ==
    {seg \in UNION {{Split(RegPool[i][n][1])[x] :
                        x \in 1..Len(Split(RegPool[i][n][1]))} :
                    n \in 1..Len(RegPool[i])} : BadSegment(seg)}

\* the keys of a defaults tree, at every depth
RECURSIVE AllKeys(_)
AllKeys(tree) ==
    IF ~IsDict(tree) THEN {}
    ELSE (DOMAIN tree.v) \cup UNION {AllKeys(tree.v[n]) : n \in DOMAIN tree.v}

\* C15: a registration call with a key one of whose '__'-separated
\* segments is no bare identifier fails with RuntimeError, and no such
\* segment ever becomes a key of the defaults tree.
C15_InvalidKeyRejected ==
    /\ \A j \in 1..Len(reglog) :
            BadSegments(reglog[j].call) # {} => reglog[j].exc = "RuntimeError"
    /\ \A i \in 1..Len(RegPool) : \A seg \in BadSegments(i) :
            JoinChars(seg) \notin AllKeys(defaults)

\* b=1, a__=True was refused after a={} had been registered
C15_Witness ==
    /\ Len(reglog) = 2
    /\ reglog[1] = [scope |-> GLOBAL, call |-> 2, exc |-> "none"]
    /\ reglog[2] = [scope |-> GLOBAL, call |-> 13, exc |-> "RuntimeError"]
    /\ BadSegments(13) = {<<>>}

---------------------------------------------------------------------------
(* Properties of access to registered and unregistered keys *)

AccessOps == {"read", "get_attr", "write", "set_attr"}

\* the key of tgt was registered by RegisterAll(NestKwargs)
AccessRegistered(tgt) ==
    /\ nreg > 0
    /\ tgt.names \in {<<"on">>, <<"a", "on">>, <<"a", "b", "c">>}

\* the default NestKwargs registers for a path
AccessDefault(names) ==
    CASE names = <<"on">> -> PyBool(TRUE)
      [] names = <<"a", "on">> -> PyBool(FALSE)
      [] names = <<"a", "b", "c">> -> PyInt(0)

\* C16: under strict registration an access to an unregistered key raises
\* AttributeError before any driver call, at depth 1, 2 and 3, on the Config
\* and on a guild's Group, by attribute access, get_attr and set_attr; once
\* the key is registered the same access succeeds and an unset read returns
\* the registered default.
C16_StrictAccess ==
    (force_registration /\ last.op \in AccessOps /\ last.tgt \in AccessTargets)
        => /\ ~AccessRegistered(last.tgt)
                => (last.exc = "AttributeError" /\ last.calls = <<>>)
           /\ AccessRegistered(last.tgt)
                => /\ last.exc = "none"
                   /\ (/\ last.op \in {"read", "get_attr"}
                       /\ last.arg = PyNone
                       /\ Untouched(PathOf(last.tgt)))
                        => last.ret = AccessDefault(last.tgt.names)

\* under strict registration guild 42's registered a.on was written, then
\* get_attr of its unregistered a.b.x raised
C16_Witness ==
    /\ force_registration
    /\ <<PathOf(Target(GUILD, <<42>>, <<"a", "on">>)), PyBool(TRUE)>>
            \in written
    /\ ReadCall(Target(GUILD, <<42>>, <<"a", "on">>), PyNone).ret = PyBool(TRUE)
    /\ last.op = "get_attr"
    /\ last.tgt = Target(GUILD, <<42>>, <<"a", "b", "x">>)
    /\ last.exc = "AttributeError"

\* an unregistered key at top level or under a registered group
LooseKey(tgt) ==
    /\ tgt \in AccessTargets
    /\ ~AccessRegistered(tgt)
    /\ \/ Len(tgt.names) = 1
       \/ nreg > 0 /\ tgt.names \in {<<"a", "x">>, <<"a", "b", "x">>}

\* C17: without strict registration an access to an unregistered key, at
\* top level or under a registered group, gives a Value without default:
\* an unset read returns None, or the override if one is given, a write
\* succeeds, and a read after a write returns the value written.
C17_UnregisteredValue ==
    (~force_registration /\ last.op \in AccessOps /\ LooseKey(last.tgt))
        => /\ last.exc = "none"
           /\ (last.op \in {"read", "get_attr"} /\ Untouched(PathOf(last.tgt)))
                => last.ret = last.arg
           /\ last.op \in {"read", "get_attr"}
                => \A e \in written :
                        e[1] = PathOf(last.tgt) => last.ret = e[2]
           /\ last.op \in {"write", "set_attr"}
                => /\ ReadCall(last.tgt, PyNone).ret = last.arg
                   /\ GetAttrCall(last.tgt, PyInt(0)).ret = last.arg

\* the unregistered key a.x of the registered global group a was written
\* True and read back
C17_Witness ==
    /\ ~force_registration /\ nreg > 0
    /\ last.op = "read" /\ last.arg = PyNone
    /\ last.tgt = Target(GLOBAL, <<>>, <<"a", "x">>)
    /\ <<PathOf(last.tgt), PyBool(TRUE)>> \in written
    /\ last.ret = PyBool(TRUE)

---------------------------------------------------------------------------
(* Properties of Group.set and Group.clear *)

\* tgt resolves to a Group: the scope's own group, or a registered group
IsGroup(tgt) ==
    Resolve(defaults, force_registration, tgt).cls \in {"Group", "MemberGroup"}

\* the registered leaves at or below the group tgt
LeavesBelow(tgt) ==
    {l \in GroupLeaves :
        /\ l.scope = tgt.scope /\ l.ids = tgt.ids
        /\ IsPrefix(tgt.names, l.names)
        /\ AccessRegistered(l)}

\* the child key of tgt through which leaf l is reached
ChildKey(tgt, l) == l.names[Len(tgt.names) + 1]

\* C18: Group.set with a value that is no mapping raises (ValueError),
\* makes no driver call and leaves the stored document as it was, so every
\* read returns afterwards what it returned before.
C18_GroupSetNonMapping ==
    [][(/\ last'.op = "write" /\ last'.tgt \in GroupTargets
        /\ IsGroup(last'.tgt) /\ ~IsDict(last'.arg))
        => /\ last'.exc = "ValueError"
           /\ last'.calls = <<>>
           /\ data' = data
           /\ \A t \in GroupLeaves \cup GroupTargets :
                ReadIn(defaults', data', t, PyNone) = ReadCall(t, PyNone)]_vars

\* set(True) on the registered group a was refused after a.on had been
\* written, and a.on still reads the value written
C18_Witness ==
    /\ last.op = "write" /\ last.tgt = Target(GLOBAL, <<>>, <<"a">>)
    /\ last.arg = PyBool(TRUE) /\ last.exc = "ValueError"
    /\ nreg > 0
    /\ <<PathOf(Target(GLOBAL, <<>>, <<"a", "on">>)), LeafVal>> \in written
    /\ ReadCall(Target(GLOBAL, <<>>, <<"a", "on">>), PyNone).ret = LeafVal

\* C19: Group.clear() does what Group.set({}) does: same outcome, same
\* stored document; after it every registered leaf at any depth below the
\* group reads its registered default, whatever had been written, and so
\* does every registered global key after the global group was cleared.
C19_ClearIsSetEmpty ==
    [][(last'.op = "clear" /\ last'.tgt \in GroupTargets /\ IsGroup(last'.tgt))
        => /\ last'.exc = WriteCall(last'.tgt, EmptyDict).exc
           /\ last'.exc = "none"
           /\ data' = WriteCall(last'.tgt, EmptyDict).doc
           /\ \A l \in LeavesBelow(last'.tgt) :
                /\ ReadIn(defaults', data', l, PyNone).exc = "none"
                /\ ReadIn(defaults', data', l, PyNone).ret
                        = AccessDefault(l.names)]_vars

\* the global group was cleared after an earlier write into it, and the
\* registered keys read their defaults
C19_Witness ==
    /\ last.op = "clear" /\ last.tgt = Target(GLOBAL, <<>>, <<>>)
    /\ last.exc = "none" /\ nreg > 0 /\ nset = 2
    /\ written = {<<PathOf(last.tgt), EmptyDict>>}
    /\ \A l \in LeavesBelow(last.tgt) :
            ReadCall(l, PyNone).ret = AccessDefault(l.names)

\* C20: Group.set(m) with a mapping m replaces the stored subtree: each key
\* of m then reads m's value, and every registered leaf reached through a
\* child key that m lacks reads its registered default, whatever had been
\* written to it before.
C20_GroupSetOverwrites ==
    [][(/\ last'.op = "write" /\ last'.tgt \in GroupTargets
        /\ IsGroup(last'.tgt) /\ IsDict(last'.arg))
        => /\ last'.exc = "none"
           /\ \A key \in DOMAIN last'.arg.v :
                LET child == Target(last'.tgt.scope, last'.tgt.ids,
                                    Append(last'.tgt.names, key))
                    r == ReadIn(defaults', data', child, PyNone)
                IN r.exc = "none" => r.ret = last'.arg.v[key]
           /\ \A l \in LeavesBelow(last'.tgt) :
                ChildKey(last'.tgt, l) \notin DOMAIN last'.arg.v
                    => /\ ReadIn(defaults', data', l, PyNone).exc = "none"
                       /\ ReadIn(defaults', data', l, PyNone).ret
                        = AccessDefault(l.names)]_vars

\* a.set({"b": {"c": 7}}) after an earlier write below a: a.b.c reads 7 and
\* a.on its default
C20_Witness ==
    /\ last.op = "write" /\ last.tgt = Target(GLOBAL, <<>>, <<"a">>)
    /\ last.arg = DictPut(EmptyDict, "b", DictPut(EmptyDict, "c", PyInt(7)))
    /\ last.exc = "none" /\ nreg > 0 /\ nset = 2
    /\ written = {<<PathOf(last.tgt), last.arg>>}
    /\ ReadCall(Target(GLOBAL, <<>>, <<"a", "b", "c">>), PyNone).ret = PyInt(7)
    /\ ReadCall(Target(GLOBAL, <<>>, <<"a", "on">>), PyNone).ret = PyBool(FALSE)

---------------------------------------------------------------------------
(* Properties of Group.all *)

\* the names a keyword of a registration call stands for
KeyNames(key) == [j \in 1..Len(Split(key)) |-> JoinChars(Split(key)[j])]

\* the default AllKwargs registers for the leaf called names
AllDefault(names) ==
    LET i == CHOOSE j \in 1..Len(AllKwargs) : KeyNames(AllKwargs[j][1]) = names
    IN AllKwargs[i][2]

\* what the history says the leaf l holds: the value last written to it,
\* else its registered default
AllExpected(l) ==
    IF \E e \in written : e[1] = PathOf(l)
    THEN (CHOOSE e \in written : e[1] = PathOf(l))[2]
    ELSE AllDefault(l.names)

\* the leaves AllKwargs registers directly in the group tgt, and at any depth
LeafKeysOf(tgt) ==
    {l \in AllLeaves :
        /\ l.scope = tgt.scope /\ l.ids = tgt.ids
        /\ SubSeq(l.names, 1, Len(l.names) - 1) = tgt.names}

AllLeavesBelow(tgt) ==
    {l \in AllLeaves :
        /\ l.scope = tgt.scope /\ l.ids = tgt.ids
        /\ IsPrefix(tgt.names, l.names)}

\* the value a mapping holds under the names rel, if it holds one
Lookup(x, rel) == DriverGet(x, rel)

\* C21: all() on a registered group returns a mapping that has every leaf
\* key registered in that group, a written key at the value written and
\* the others at their registered defaults.
C21_AllMergesLeaves ==
    (last.op = "all" /\ last.tgt \in AllGroups /\ nreg > 0)
        => /\ last.exc = "none"
           /\ IsDict(last.ret)
           /\ \A l \in LeafKeysOf(last.tgt) :
                /\ HasKey(last.ret, LastName(l))
                /\ last.ret.v[LastName(l)] = AllExpected(l)

\* user 42's `on` was written and `off` was not: all() has both
C21_Witness ==
    /\ last.op = "all" /\ last.tgt = Target(USER, <<42>>, <<>>)
    /\ nreg > 0 /\ last.exc = "none"
    /\ <<PathOf(Target(USER, <<42>>, <<"on">>)), LeafVal>> \in written
    /\ Untouched(PathOf(Target(USER, <<42>>, <<"off">>)))
    /\ last.ret.v["on"] = LeafVal
    /\ last.ret.v["off"] = PyBool(FALSE)

\* C22: stored values are merged over the defaults at every level of
\* nesting: all() on a group returns, for every registered leaf at any
\* depth below it, the value written to the leaf, else its default.
C22_AllMergesNested ==
    (last.op = "all" /\ last.tgt \in AllGroups /\ nreg > 0)
        => /\ last.exc = "none"
           /\ \A l \in AllLeavesBelow(last.tgt) :
                LET rel == SubSeq(l.names, Len(last.tgt.names) + 1,
                                  Len(l.names))
                IN /\ Lookup(last.ret, rel).found
                   /\ Lookup(last.ret, rel).val = AllExpected(l)

---------------------------------------------------------------------------
(* Properties of member data *)

\* the member leaves of guild g
LeavesOfGuild(g) == {l \in MemberLeaves : l.ids[1] = g}

\* the data all_members() returns for the member of leaf l, in a result ret
\* of the form guild id -> member id -> data
MemberData(ret, l) == ret.v[l.ids[1]].v[l.ids[2]]

\* C23: clear_all_members(guild=G) removes only the data of G's members:
\* afterwards every member of G reads the registered defaults, and every
\* value written for a member of another guild is still returned by reads
\* and by all_members().
C23_ClearGuildMembersOnly ==
    [][(last'.op = "clear_all_members" /\ last'.arg # PyNone)
        => /\ last'.exc = "none"
           /\ \A l \in LeavesOfGuild(last'.arg.v) :
                (nreg > 0 \/ ~force_registration)
                    => /\ ReadIn(defaults', data', l, PyNone).exc = "none"
                       /\ ReadIn(defaults', data', l, PyNone).ret
                            = IF nreg > 0 THEN RegisteredDefault(l)
                              ELSE PyNone
           /\ \A l \in MemberLeaves \ LeavesOfGuild(last'.arg.v) :
                /\ ReadIn(defaults', data', l, PyNone).exc
                        = ReadCall(l, PyNone).exc
                /\ ReadIn(defaults', data', l, PyNone).ret
                        = ReadCall(l, PyNone).ret
                /\ \A e \in written :
                     e[1] = PathOf(l)
                        => LET r == AllMembers(defaults', force_registration',
                                               PyNone, data')
                           IN /\ ReadIn(defaults', data', l, PyNone).ret = e[2]
                              /\ r.exc = "none"
                              /\ MemberData(r.ret, l).v["on"] = e[2]]_vars

\* members of guilds 42 and 43 were written, then clear_all_members(42):
\* the member of 43 still reads True, the member of 42 reads the default
C23_Witness ==
    /\ last.op = "clear_all_members" /\ last.arg = PyInt(42)
    /\ last.exc = "none" /\ nreg > 0 /\ nset = 3
    /\ written = {<<PathOf(Target(MEMBER, <<43, 7>>, <<"on">>)), PyBool(TRUE)>>,
                  <<PathOf(Target(MEMBER, <<42>>, <<>>)), EmptyDict>>}
    /\ ReadCall(Target(MEMBER, <<43, 7>>, <<"on">>), PyNone).ret = PyBool(TRUE)
    /\ ReadCall(Target(MEMBER, <<42, 7>>, <<"on">>), PyNone).ret = PyBool(FALSE)
    /\ DOMAIN AllMembers(defaults, force_registration, PyNone, data).ret.v
            = {42, 43}

\* C26: clearing one entity (member(m1).clear()) reverts that entity to
\* the defaults and no other: every other member, of the same guild or of
\* another, reads what it read before, the values written for it included.
C26_EntityClearOnly ==
    [][(last'.op = "clear" /\ last'.tgt \in MemberRoots)
        => /\ last'.exc = "none"
           /\ \A l \in MemberLeaves :
                IF l.ids = last'.tgt.ids
                THEN (nreg > 0 \/ ~force_registration)
                        => /\ ReadIn(defaults', data', l, PyNone).exc = "none"
                           /\ ReadIn(defaults', data', l, PyNone).ret
                                = IF nreg > 0 THEN RegisteredDefault(l)
                                  ELSE PyNone
                ELSE /\ ReadIn(defaults', data', l, PyNone).exc
                            = ReadCall(l, PyNone).exc
                     /\ ReadIn(defaults', data', l, PyNone).ret
                            = ReadCall(l, PyNone).ret
                     /\ \A e \in written :
                            e[1] = PathOf(l)
                                => ReadIn(defaults', data', l, PyNone).ret
                                        = e[2]]_vars

\* members 7 and 8 of guild 42 were written, then member 7 was cleared:
\* member 8 still reads True and member 7 reads the default
C26_Witness ==
    /\ last.op = "clear" /\ last.tgt = Target(MEMBER, <<42, 7>>, <<>>)
    /\ last.exc = "none" /\ nreg > 0 /\ nset = 3
    /\ written = {<<PathOf(Target(MEMBER, <<42, 8>>, <<"on">>)), PyBool(TRUE)>>,
                  <<PathOf(last.tgt), EmptyDict>>}
    /\ ReadCall(Target(MEMBER, <<42, 8>>, <<"on">>), PyNone).ret = PyBool(TRUE)
    /\ ReadCall(Target(MEMBER, <<42, 7>>, <<"on">>), PyNone).ret = PyBool(FALSE)

\* the ids under which the store holds a document below path
StoredIds(path) ==
    LET r == DriverGet(data, path)
    IN IF r.found /\ IsDict(r.val)
       THEN {n \in 0..MaxId : IntToStr(n) \in DOMAIN r.val.v}
       ELSE {}

\* d has every key StoreKwargs registers, at the value written for the
\* entity, else at the registered default
FullData(d, scope, ids) ==
    /\ IsDict(d)
    /\ nreg > 0 =>
        \A i \in 1..Len(StoreKwargs) :
            LET n == JoinChars(StoreKwargs[i][1])
            IN /\ HasKey(d, n)
               /\ d.v[n] = Expected(Target(scope, ids, <<n>>))

\* C28: all_members() returns guild id -> member id -> data for the guilds
\* and members the store holds, all_members(guild=G) member id -> data for
\* the members of G it holds and no others; ids are ints and each member's
\* data has every registered member default, stored values overriding.
C28_AllMembersShape ==
    last.op = "all_members"
        => /\ last.exc = "none"
           /\ last.ret.k = "intdict"
           /\ last.arg = PyNone
                => /\ DOMAIN last.ret.v
                        = StoredIds(<<unique_identifier, MEMBER>>)
                   /\ \A g \in DOMAIN last.ret.v :
                        /\ last.ret.v[g].k = "intdict"
                        /\ DOMAIN last.ret.v[g].v
                            = StoredIds(<<unique_identifier, MEMBER,
                                          IntToStr(g)>>)
                        /\ \A mid \in DOMAIN last.ret.v[g].v :
                            FullData(last.ret.v[g].v[mid], MEMBER, <<g, mid>>)
                   /\ \A l \in MemberLeaves :
                        (\E e \in written : e[1] = PathOf(l))
                            => /\ l.ids[1] \in DOMAIN last.ret.v
                               /\ l.ids[2] \in DOMAIN last.ret.v[l.ids[1]].v
           /\ last.arg # PyNone
                => /\ DOMAIN last.ret.v
                        = StoredIds(<<unique_identifier, MEMBER,
                                      IntToStr(last.arg.v)>>)
                   /\ \A mid \in DOMAIN last.ret.v :
                        FullData(last.ret.v[mid], MEMBER, <<last.arg.v, mid>>)
                   /\ \A l \in LeavesOfGuild(last.arg.v) :
                        (\E e \in written : e[1] = PathOf(l))
                            => l.ids[2] \in DOMAIN last.ret.v

\* members of guilds 42 and 43 were written; all_members() has both guilds,
\* member 7 of 42 with the value written and the default of `roles`
C28_Witness ==
    /\ last.op = "all_members" /\ last.arg = PyNone /\ last.exc = "none"
    /\ nreg > 0
    /\ written = {<<PathOf(Target(MEMBER, <<42, 7>>, <<"on">>)), PyBool(TRUE)>>,
                  <<PathOf(Target(MEMBER, <<43, 7>>, <<"on">>)), PyBool(TRUE)>>}
    /\ DOMAIN last.ret.v = {42, 43}
    /\ DOMAIN last.ret.v[42].v = {7}
    /\ last.ret.v[42].v[7].v["on"] = PyBool(TRUE)
    /\ last.ret.v[42].v[7].v["roles"] = EmptyList

---------------------------------------------------------------------------
(* Properties of the scope-wide calls *)

\* C24: clear_all() resets every scope, whatever the Config's unique
\* identifier: after it every key of every scope reads as if nothing had
\* been written, the registered default when one is registered.
C24_ClearAllResets ==
    last.op = "clear_all"
        => /\ last.exc = "none"
           /\ \A l \in ScopeLeaves :
                nreg > 0 => /\ ReadCall(l, PyNone).exc = "none"
                            /\ ReadCall(l, PyNone).ret = RegisteredDefault(l)

\* the leaves of the entities of a scope
LeavesOfScope(scope) == {l \in ScopeLeaves : l.scope = scope}

\* the scope's aggregate read finds nothing
AggregateEmpty(dflts, doc, scope) ==
    LET r == IF scope = MEMBER
             THEN AllMembers(dflts, force_registration, PyNone, doc)
             ELSE AllFromScope(dflts, force_registration, scope, doc)
    IN scope # GLOBAL
        => r.exc = "none" /\ r.ret.k = "intdict" /\ DOMAIN r.ret.v = {}

\* C25: clear_all_<scope>() (and clear_all_members() without guild) resets
\* the named scope and no other: its entities read the registered defaults,
\* its aggregate read is empty, and the entities of every other scope read
\* what they read before, the values written for them included.
C25_ClearScopeOnly ==
    [][(\/ last'.op = "clear_scope"
        \/ last'.op = "clear_all_members" /\ last'.arg = PyNone)
        => /\ last'.exc = "none"
           /\ AggregateEmpty(defaults', data', last'.tgt.scope)
           /\ \A l \in ScopeLeaves :
                LET after == ReadIn(defaults', data', l, PyNone)
                    before == ReadCall(l, PyNone)
                IN IF l.scope = last'.tgt.scope
                   THEN (nreg > 0 \/ ~force_registration)
                            => /\ after.exc = "none"
                               /\ after.ret = IF nreg > 0
                                              THEN RegisteredDefault(l)
                                              ELSE PyNone
                   ELSE /\ after.exc = before.exc
                        /\ after.ret = before.ret
                        /\ \A e \in written :
                                e[1] = PathOf(l) => after.ret = e[2]]_vars

\* a guild and a user were written, then clear_all_guilds(): the guild
\* reads the default, all_guilds() is empty and the user still reads True
C25_Witness ==
    /\ last.op = "clear_scope" /\ last.tgt.scope = GUILD
    /\ last.exc = "none" /\ nreg > 0 /\ nset = 3
    /\ written = {<<PathOf(Target(USER, <<42>>, <<"on">>)), PyBool(TRUE)>>,
                  <<<<unique_identifier, GUILD>>, EmptyDict>>}
    /\ ReadCall(Target(USER, <<42>>, <<"on">>), PyNone).ret = PyBool(TRUE)
    /\ ReadCall(Target(GUILD, <<42>>, <<"on">>), PyNone).ret = PyBool(FALSE)
    /\ AggregateEmpty(defaults, data, GUILD)
    /\ DOMAIN AllFromScope(defaults, force_registration, USER, data).ret.v
            = {42}

\* C27: all_<scope>() returns a mapping keyed by the int ids of the
\* entities the store holds a document for, in that scope and no others;
\* each value has every registered top-level key of the scope, stored
\* values overriding; one driver get, of the scope's subtree, is made.
C27_AllOfScopeShape ==
    last.op = "all_scope"
        => /\ last.exc = "none"
           /\ last.ret.k = "intdict"
           /\ DOMAIN last.ret.v
                = StoredIds(<<unique_identifier, last.tgt.scope>>)
           /\ \A id \in DOMAIN last.ret.v :
                FullData(last.ret.v[id], last.tgt.scope, <<id>>)
           /\ \A l \in LeavesOfScope(last.tgt.scope) :
                (\E e \in written : e[1] = PathOf(l))
                    => l.ids[1] \in DOMAIN last.ret.v
           /\ last.calls
                = <<DrvCall("get", <<unique_identifier, last.tgt.scope>>)>>

\* guilds 42 and 43 and a user were written: all_guilds() has the two
\* guilds, each with the value written and the default of `roles`
C27_Witness ==
    /\ last.op = "all_scope" /\ last.tgt.scope = GUILD /\ last.exc = "none"
    /\ nreg > 0
    /\ written = {<<PathOf(Target(GUILD, <<42>>, <<"on">>)), PyBool(TRUE)>>,
                  <<PathOf(Target(GUILD, <<43>>, <<"on">>)), PyBool(TRUE)>>,
                  <<PathOf(Target(USER, <<42>>, <<"on">>)), PyBool(TRUE)>>}
    /\ DOMAIN last.ret.v = {42, 43}
    /\ last.ret.v[43].v["on"] = PyBool(TRUE)
    /\ last.ret.v[43].v["roles"] = EmptyList

\* the path of an entity's key: the store id, the scope's tag, the ids as
\* decimal strings, the nested keys
ShapeOf(tgt) ==
    <<unique_identifier, tgt.scope>>
        \o [i \in 1..Len(tgt.ids) |-> IntToStr(tgt.ids[i])] \o tgt.names

\* the number of ids an accessor of the scope folds into the path
IdsOf(scope) == IF scope = GLOBAL THEN 0 ELSE IF scope = MEMBER THEN 2 ELSE 1

\* C29: every path handed to the driver starts with the store id, followed
\* by a scope tag when it goes further; a call through an accessor uses
\* (store id, tag, ids as strings..., keys...), with one id for guild,
\* channel, role and user, two for member and none for global access.
C29_DriverPathShape ==
    \A j \in 1..Len(last.calls) :
        LET path == last.calls[j].path
        IN /\ Len(path) >= 1
           /\ path[1] = unique_identifier
           /\ Len(path) >= 2 => path[2] \in Scopes
           /\ last.op \in {"read", "write"}
                => /\ path = ShapeOf(last.tgt)
                   /\ Len(last.tgt.ids) = IdsOf(last.tgt.scope)

---------------------------------------------------------------------------
(* Properties of driver failures *)

\* C30: a read never surfaces the driver's KeyError for an absent value:
\* it returns the override, else the default.  Any other failure of
\* driver.get or driver.set reaches the caller as it was raised, after that
\* one driver call and no other.
C30_DriverErrors ==
    /\ last.op \in {"read", "read_fault"} => last.exc # "KeyError"
    /\ (/\ last.op = "read" /\ Untouched(PathOf(last.tgt))
        /\ (Registered(last.tgt) \/ ~force_registration))
        => /\ last.exc = "none"
           /\ last.ret = IF last.arg # PyNone THEN last.arg
                         ELSE IF Registered(last.tgt)
                         THEN RegisteredDefault(last.tgt) ELSE PyNone
    /\ (/\ last.op \in {"read_fault", "write_fault"}
        /\ (Registered(last.tgt) \/ ~force_registration))
        => /\ last.exc = DriverFault
           /\ last.calls
                = <<DrvCall(IF last.op = "read_fault" THEN "get" ELSE "set",
                            ShapeOf(last.tgt))>>

\* guild 42's key was written, then a read of it failed in the driver: the
\* caller got the driver's error after a single get
C30_Witness ==
    /\ last.op = "read_fault" /\ last.tgt = Target(GUILD, <<42>>, <<"on">>)
    /\ nreg > 0
    /\ <<PathOf(last.tgt), PyBool(TRUE)>> \in written
    /\ last.exc = DriverFault
    /\ Len(last.calls) = 1

---------------------------------------------------------------------------
(* Properties of dynamic access *)

\* C31: get_attr and set_attr resolve a name as attribute access does:
\* after set_attr(name, v) an attribute-style read of name returns v;
\* get_attr(name, d) gives what the attribute-style read with override d
\* gives, which is d for an unset key; get_attr(name, resolve=False) gives
\* an object of the class and path attribute access gives.
C31_DynamicAccess ==
    /\ (last.op = "set_attr" /\ last.exc = "none")
        => /\ ReadCall(last.tgt, PyNone).exc = "none"
           /\ ReadCall(last.tgt, PyNone).ret = last.arg
    /\ last.op = "set_attr"
        => last.exc = WriteCall(last.tgt, last.arg).exc
    /\ last.op = "get_attr"
        => /\ last.exc = ReadCall(last.tgt, last.arg).exc
           /\ last.ret = ReadCall(last.tgt, last.arg).ret
           /\ (/\ last.exc = "none" /\ last.arg # PyNone
               /\ Untouched(PathOf(last.tgt)))
                => last.ret = last.arg
    /\ last.op = "get_attr_raw"
        => LET obj == Resolve(defaults, force_registration, last.tgt)
           IN IF obj.cls = "AttributeError"
              THEN last.exc = "AttributeError"
              ELSE /\ last.exc = "none"
                   /\ last.ret = ObjView(obj)
                   /\ last.ret.v[Len(last.ret.v)] = PyStr(LastName(last.tgt))

\* set_attr("42", True) on the registered global group a, then
\* get_attr("42", 0) returned True
C31_Witness ==
    /\ last.op = "get_attr" /\ last.arg = PyInt(0)
    /\ last.tgt = Target(GLOBAL, <<>>, <<"a", "42">>)
    /\ nreg > 0 /\ ~force_registration
    /\ <<PathOf(last.tgt), PyBool(TRUE)>> \in written
    /\ last.ret = PyBool(TRUE)

---------------------------------------------------------------------------
(* Properties of the classification of keys *)

\* the default registered for names, by the registration call's arguments:
\* a mapping for a name that is a proper prefix of a registered key
KindDefault(names) ==
    IF \E i \in 1..Len(KindKwargs) : KeyNames(KindKwargs[i][1]) = names
    THEN KindKwargs[CHOOSE i \in 1..Len(KindKwargs) :
                        KeyNames(KindKwargs[i][1]) = names][2]
    ELSE EmptyDict

KindRegistered(names) ==
    /\ nreg > 0
    /\ \E i \in 1..Len(KindKwargs) : IsPrefix(names, KeyNames(KindKwargs[i][1]))

\* C32: a registered key is a Group if and only if its registered default
\* is a mapping, the empty one included, and a Value otherwise; a key
\* registered with None is registered: under strict registration access to
\* it succeeds and an unset read returns None.
C32_Classification ==
    /\ (last.op = "get_attr_raw" /\ KindRegistered(last.tgt.names))
        => /\ last.exc = "none"
           /\ last.ret.v[1] = IF IsDict(KindDefault(last.tgt.names))
                              THEN PyStr("Group") ELSE PyStr("Value")
    /\ (/\ last.op = "read" /\ KindRegistered(last.tgt.names)
        /\ last.tgt.names = <<"val">> /\ last.arg = PyNone
        /\ Untouched(PathOf(last.tgt)))
        => last.exc = "none" /\ last.ret = PyNone

\* under strict registration the key registered with {} was classified
C32_Witness ==
    /\ last.op = "get_attr_raw" /\ force_registration /\ nreg > 0
    /\ last.tgt = Target(USER, <<42>>, <<"box">>)
    /\ last.ret.v[1] = PyStr("Group")
    /\ ReadCall(Target(USER, <<42>>, <<"val">>), PyNone).exc = "none"
    /\ ReadCall(Target(USER, <<42>>, <<"val">>), PyNone).ret = PyNone

---------------------------------------------------------------------------
(* Properties of the reading calls *)

QueryOps == {"read", "all", "all_scope", "all_members"}

\* C33: read (with or without override), Group.all(), all_<scope>() and
\* all_members() make no driver set and leave the stored document as it
\* was, also when what they return comes from the defaults.
C33_QueriesDoNotWrite ==
    [][last'.op \in QueryOps
        => /\ data' = data
           /\ nset' = nset
           /\ \A j \in 1..Len(last'.calls) : last'.calls[j].kind = "get"]_vars

\* all_guilds() returned guild 42 with the default of `roles`, and the
\* store still holds no `roles` for it
C33_Witness ==
    /\ last.op = "all_scope" /\ last.tgt.scope = GUILD /\ last.exc = "none"
    /\ nreg > 0
    /\ written = {<<PathOf(Target(GUILD, <<42>>, <<"on">>)), PyBool(TRUE)>>}
    /\ last.ret.v[42].v["roles"] = EmptyList
    /\ ~DriverGet(data, PathOf(Target(GUILD, <<42>>, <<"roles">>))).found

---------------------------------------------------------------------------
(* Properties of leaf writes *)

\* C34: a write to a leaf at path p makes exactly one driver set, at p, and
\* every leaf whose path is neither a prefix nor an extension of p reads
\* afterwards what it read before: sibling keys, the same key of another
\* entity, keys of another scope.
C34_WriteFrame ==
    [][(/\ last'.op = "write" /\ last'.exc = "none"
        /\ Resolve(defaults, force_registration, last'.tgt).cls = "Value")
        => /\ last'.calls = <<DrvCall("set", ShapeOf(last'.tgt))>>
           /\ nset' = nset + 1
           /\ ReadIn(defaults', data', last'.tgt, PyNone).ret = last'.arg
           /\ \A l \in WriteTargets :
                ~Related(ShapeOf(l), ShapeOf(last'.tgt))
                    => LET after == ReadIn(defaults', data', l, PyNone)
                           before == ReadCall(l, PyNone)
                       IN /\ after.exc = before.exc
                          /\ after.ret = before.ret]_vars

\* guild 42's a.on was written, then its sibling on: both read the value
\* written and guild 43 reads its defaults
C34_Witness ==
    /\ last.op = "write" /\ last.tgt = Target(GUILD, <<42>>, <<"on">>)
    /\ last.exc = "none" /\ nreg > 0 /\ nset = 2
    /\ written = {<<PathOf(Target(GUILD, <<42>>, <<"a", "on">>)), LeafVal>>,
                  <<PathOf(last.tgt), LeafVal>>}
    /\ ReadCall(Target(GUILD, <<42>>, <<"a", "on">>), PyNone).ret = LeafVal
    /\ ReadCall(Target(GUILD, <<42>>, <<"on">>), PyNone).ret = LeafVal
    /\ ReadCall(Target(GUILD, <<43>>, <<"on">>), PyNone).ret = PyBool(TRUE)

---------------------------------------------------------------------------
(* Properties of the scopes' defaults *)

\* C35: a register_<scope> call changes the defaults tree of its scope
\* and of no other: a key stays unregistered in a scope no call was made
\* for (an unset read returns None, or raises under strict registration),
\* and a call raises the conflict error only for a clash with what its own
\* scope has registered.
C35_DefaultsPerScope ==
    [][last'.op = "register"
        => /\ \A s \in Scopes \ {last'.tgt.scope} :
                ScopeTree(defaults', s) = ScopeTree(defaults, s)
           /\ \A s \in RegScopes :
                (\A j \in 1..Len(reglog') : reglog'[j].scope # s)
                    => LET r == ReadIn(defaults', data',
                                       RegTarget(s, <<"a">>), PyNone)
                       IN IF force_registration
                          THEN r.exc = "AttributeError"
                          ELSE r.exc = "none" /\ r.ret = PyNone
           /\ last'.exc = "KeyError"
                => Clashes(ScopeTree(defaults, last'.tgt.scope),
                           last'.arg.v) # {}]_vars

\* a=True is registered for guilds and a__b=False for the global scope,
\* without conflict: each scope has its own a
C35_Witness ==
    /\ Len(reglog) = 2
    /\ reglog[1] = [scope |-> GUILD, call |-> 1, exc |-> "none"]
    /\ reglog[2] = [scope |-> GLOBAL, call |-> 4, exc |-> "none"]
    /\ KindAt(ScopeTree(defaults, GUILD), <<"a">>) = "leaf"
    /\ KindAt(ScopeTree(defaults, GLOBAL), <<"a">>) = "group"

---------------------------------------------------------------------------
(* Properties of registered containers *)

\* C36: the defaults are copied at registration: after the caller appended
\* to the list it had passed as a default, an unset read still returns the
\* default as registered, the empty list.
C36_RegistrationCopies ==
    \A scope \in CopyScopes :
        KindAt(ScopeTree(defaults, scope), <<"roles">>) = "leaf"
            => /\ ReadCall(CopyTarget(scope), PyNone).exc = "none"
               /\ ReadCall(CopyTarget(scope), PyNone).ret = EmptyList
               /\ (last.op = "read" /\ last.tgt = CopyTarget(scope)
                   /\ last.arg = PyNone)
                    => last.ret = EmptyList

\* task 1 registered its list for guilds and appended to it; guild 42's
\* unset read returned []
C36_Witness ==
    /\ pc[1] = "mutated" /\ local[1].tgt = CopyTarget(GUILD)
    /\ LocalVal(1) = PyList(<<Item(1)>>)
    /\ last.op = "read" /\ last.tgt = CopyTarget(GUILD) /\ last.arg = PyNone
    /\ last.exc = "none" /\ last.ret = EmptyList

---------------------------------------------------------------------------
(* Properties of the bank *)

RECURSIVE TotalOf(_, _)
\* the sum of the balances of the accounts in ids
TotalOf(b, ids) ==
    IF ids = {} THEN 0
    ELSE LET u == CHOOSE x \in ids : TRUE IN b[u] + TotalOf(b, ids \ {u})

\* C38: a transfer of sum >= 1 between two distinct users, the recipient
\* with an account and the sender with an account holding at least sum,
\* moves sum from the sender's balance to the recipient's; every other
\* transfer changes no balance; so a transfer keeps the total of the
\* balances and makes no balance negative.
C38_TransferConserves ==
    [][(said'.cmd = "transfer" /\ ncmd' = ncmd + 1)
        => LET a == said'.author
               u == said'.user
               s == said'.sum
           IN /\ IF /\ a # u /\ s >= 1
                    /\ u \in DOMAIN bank /\ a \in DOMAIN bank
                    /\ bank[a] >= s
                 THEN /\ bank' = [bank EXCEPT ![a] = @ - s, ![u] = @ + s]
                      /\ said'.msg = "transferred"
                 ELSE /\ bank' = bank
                      /\ said'.msg # "transferred"
              /\ DOMAIN bank' = DOMAIN bank
              /\ TotalOf(bank', DOMAIN bank') = TotalOf(bank, DOMAIN bank)
              /\ \A x \in DOMAIN bank : bank[x] >= 0 => bank'[x] >= 0]_vars

\* user 1 transferred its whole opening balance to user 2
C38_Witness ==
    /\ said = Answered("transfer", 1, 2, 100, "transferred")
    /\ DOMAIN bank = {1, 2} /\ bank[1] = 0 /\ bank[2] = 200

---------------------------------------------------------------------------
(* Properties of the menu *)

\* C39: paging wraps around and stays in range: in a menu opened at a valid
\* index, next_page shows page 0 after the last page and page + 1 otherwise,
\* prev_page shows the last page after page 0 and page - 1 otherwise, and
\* the index handed to menu is always one of 0 .. len(pages) - 1.
C39_PagingWraps ==
    [][(menu # NoMenu /\ menu.start \in 0..(menu.len - 1) /\ ncmd' = ncmd + 1)
        => /\ menu'.len = menu.len
           /\ menu'.page \in 0..(menu.len - 1)
           /\ said'.msg = "shown"
           /\ said'.cmd = "next"
                => menu'.page = IF menu.page = menu.len - 1 THEN 0
                                ELSE menu.page + 1
           /\ said'.cmd = "prev"
                => menu'.page = IF menu.page = 0 THEN menu.len - 1
                                ELSE menu.page - 1]_vars

\* a menu of three pages opened at page 1 went on to the last page and
\* from there to page 0
C39_Witness ==
    /\ menu = [len |-> 3, page |-> 0, start |-> 1]
    /\ said = Answered("next", 0, 2, 0, "shown")

---------------------------------------------------------------------------
(* Properties of blackjack *)

\* the game loops that are running
ActiveLoops == {l \in Loops : Active(loops[l])}

\* C37: at most one blackjack game loop is active at any time, for every
\* interleaving of the start and stop commands with the suspension points
\* of the loop.
C37_OneLoop == Cardinality(ActiveLoops) <= 1

\* a start command launches a loop only when game_state is "null" and
\* reports a game in progress otherwise
StartGuard ==
    [][\A l \in Loops :
        (loops[l] = "off" /\ loops'[l] # "off")
            => IF game_state = "null"
               THEN /\ loops'[l] = "started" /\ said'.msg = "started"
               ELSE /\ loops'[l] = "refused" /\ said'.msg = "inprogress"
                    /\ game_state' = game_state]_vars

====
